---- MODULE Spec2Model ----
(***************************************************************************)
(* A model of the "tested" header-only test library (include/tested.h):    *)
(* discovery of the test cases of a translation unit (CaseCollector<N>),   *)
(* registration of a Group in the Storage, the queries that build a        *)
(* Subset, and Subset::Run with its Runtime, filters and exception         *)
(* handlers.                                                               *)
(*                                                                         *)
(* Strings are sequences of characters; a C string is the sequence of its  *)
(* characters before the terminating zero.  Pointers are records naming    *)
(* the object pointed to; NullCase / NullGroup are the null pointers.      *)
(***************************************************************************)
EXTENDS Integers, Sequences, FiniteSets, TLC

\* ------------------------------------------------------------------ bounds

\* Case<N> may be specialised for the ordinals 0..MaxOrdinal of a module.
MaxOrdinal == 2
\* Number of tested::Group objects the program constructs.
MaxGroups == 2

\* ------------------------------------------------------- program constants

\* Subset::kMaxGroupName, the size of the two name filter buffers.
kMaxGroupName == 64
\* The size of CaseFailed::Message.
kMaxMessage == 1024

\* enum RetCode_t of the console runner.
RetCode_Ok == 0
RetCode_TestsFailed == 1
RetCode_FailedToStart == 2

\* The translation units of the program: the module under test and a companion.
Modules  == {1, 2}
Ordinals == 0..MaxOrdinal
GroupIds == 1..MaxGroups

Min(a, b) == IF a < b THEN a ELSE b

\* ------------------------------------------------------------- the inputs

GroupNames == {<<"A">>, <<"B">>}
CaseNames  == {<<"a">>, <<"b">>}
EmptyString == <<>>
\* __FILE__ of each translation unit.
FileNames == [m \in Modules |-> <<"f", ToString(m)>>]
\* The texts a body passes to Fail / ProcessCorrupted, and what() of a std::exception.
FailMessage == <<"m">>
CorruptMessage == <<"c">>
WhatMessage == <<"w">>

NullCase  == [tu |-> 0, ord |-> 0]
NullGroup == 0
CasePtr(m, n) == [tu |-> m, ord |-> n]

\* An exception object in flight; NoException: the call returned.
Exception(type, msg) == [type |-> type, Message |-> msg, Ordinal |-> 0,
                         GroupName |-> EmptyString, FileName |-> EmptyString]
NoException == Exception("none", EmptyString)

\* The code of one Case<N> body: what it does before StartCase ("start": it
\* calls StartCase(name) first; "return": it returns without calling it;
\* otherwise the exception it throws first), and what it does after StartCase
\* has returned ("return", or the exception it throws).
\* msg is the text the body passes to Fail; overflow tells what the write
\* past the CaseFailed object does when the text does not fit its buffer.
CaseBody(pre, name, post) ==
  [pre |-> pre, name |-> name, post |-> post, msg |-> FailMessage, overflow |-> "written"]
\* The generic template: throw CaseIsStub().
StubBody == CaseBody("CaseIsStub", EmptyString, "return")

\* What a body may do after StartCase.
PostKinds == {"return", "CaseSkipped", "CaseFailed", "std::exception",
              "unknown", "ProcessCorruptedException"}
\* The name the body of ordinal n passes to StartCase.
CaseNameOf(n) == IF n % 2 = 0 THEN <<"a">> ELSE <<"b">>
RealBody(n, post) == CaseBody("start", CaseNameOf(n), post)
PassBody(n) == RealBody(n, "return")

\* The code of a translation unit, as a table of its Case<n> bodies.
\* PlainTables: every ordinal is a stub or a passing case.
PlainTables ==
  { [n \in Ordinals |-> IF n \in S THEN PassBody(n) ELSE StubBody] : S \in SUBSET Ordinals }
\* What one body of a unit under test may do instead of passing: skip, fail,
\* throw or corrupt after StartCase, or return without calling StartCase.
OddBodies(n) ==
  { RealBody(n, p) : p \in PostKinds \ {"return"} } \cup {CaseBody("return", EmptyString, "return")}
\* RunTables: a plain table in which at most one body is odd.
RunTables ==
  PlainTables \cup
  UNION { { [t EXCEPT ![k] = b] : t \in PlainTables, b \in OddBodies(k) } : k \in Ordinals }
\* CollectTables: every ordinal is a stub, a passing case or a body that
\* breaks the authoring rule "StartCase first" (it returns, skips or declares
\* the process corrupted); the bad bodies of one table differ from ordinal to
\* ordinal in what they do.
BadPre(n, shift) == <<"return", "CaseSkipped", "ProcessCorruptedException">>[((n + shift) % 3) + 1]
BadBody(n, shift) == CaseBody(BadPre(n, shift), EmptyString, "return")
CollectTables ==
  { [n \in Ordinals |-> CASE shape[n] = "stub" -> StubBody
                          [] shape[n] = "real" -> PassBody(n)
                          [] OTHER -> BadBody(n, shift)] :
      shape \in [Ordinals -> {"stub", "real", "bad"}], shift \in 0..2 }
\* The companion unit: all its cases pass, or they skip, fail, throw, pass, ...
\* in turn.
MixedPost(n) == <<"CaseSkipped", "CaseFailed", "std::exception", "return">>[(n % 4) + 1]
CompanionTables ==
  { [n \in Ordinals |-> PassBody(n)], [n \in Ordinals |-> RealBody(n, MixedPost(n))] }

\* The programs of the two specifications.
Programs == { [m \in Modules |-> IF m = 1 THEN t ELSE c] : t \in RunTables, c \in CompanionTables }
ProgramsCollect ==
  { [m \in Modules |-> IF m = 1 THEN t ELSE [n \in Ordinals |-> PassBody(n)]] : t \in CollectTables }

\* The name a unit gives its Group: the unit under test is group "A", the
\* companion has the same name or another.
GroupNamesOf(m) == IF m = 1 THEN {<<"A">>} ELSE GroupNames

\* The arguments the application passes to the queries.
FilterGroupNames == GroupNames \cup {EmptyString}
FilterCaseNames  == CaseNames \cup {EmptyString}
FilterOrdinals   == -1..MaxOrdinal

\* Names at the size of the filter buffers: one that fills a buffer of
\* kMaxGroupName bytes and one that is a character longer.
Name64 == [i \in 1..kMaxGroupName |-> "x"]
Name65 == Name64 \o <<"x">>
\* The names the units of the third specification give their Groups and
\* their cases, and the names its application asks for.
LongGroupNames == {<<"A">>, Name64, Name65}
LongCaseNameOf(n) == IF n % 2 = 0 THEN Name64 ELSE Name65
LongTable == [n \in Ordinals |-> CaseBody("start", LongCaseNameOf(n), "return")]
ProgramsNames ==
  { [m \in Modules |-> IF m = 1 THEN LongTable ELSE t] :
      t \in {LongTable, [n \in Ordinals |-> PassBody(n)]} }
FilterLongGroupNames == LongGroupNames \cup {EmptyString}
FilterLongCaseNames  == {EmptyString, <<"a">>, Name64, Name65}

VARIABLES
  bodies,      \* bodies[m][n]: the code of Case<n> in translation unit m
  caseEntries, \* caseEntries[m][n]: CaseCollector<n>::s_caseListEntry of unit m
  groups,      \* groups[g]: the GroupListEntry of the g-th Group constructed
  nGroups,     \* number of Group objects constructed so far
  storage,     \* Storage::Instance(): the Subset members of the static storage
  subset,      \* the Subset object the application holds (a copy or a reference)
  run,         \* the Run() call, when it was the last operation: its trace, its Stats, how it ended
  ctors,       \* history: the unit and the collector of each Group constructed, and the
               \* ordinals whose code behind StartCase its discovery executed
  collectErrors, \* history: the exceptions passed to AddCollectionError, in order
  threads,     \* threads[t]: the Run() call of application thread t, statement by statement
  adders       \* adders[m]: the AddGroup() call of the Group of unit m, statement by statement

vars == <<bodies, caseEntries, groups, nGroups, storage, subset, run, ctors, collectErrors,
          threads, adders>>

\* ------------------------------------------------------------ StringStorage

\* StringStorage<SizeP>::Assign, line 115: the number of characters copied,
\* which is also the index the terminating zero is written at.
AssignMaxSize(SizeP, msg) == Min(SizeP, Len(msg))

\* StringStorage<SizeP>::Assign: the C string the buffer holds afterwards.
Assign(SizeP, msg) == SubSeq(msg, 1, AssignMaxSize(SizeP, msg))

\* StringStorage<SizeP>::Assign, lines 116-117: the indices of StorageBuf it
\* writes, those of copy_n (0 .. maxSize - 1) and that of the terminator.
AssignWrites(SizeP, msg) == 0..AssignMaxSize(SizeP, msg)

\* StringStorage<SizeP>::Assign, when msg has SizeP characters or more: maxSize
\* is SizeP and the terminator is written to StorageBuf[SizeP], one byte past
\* the array.
AssignOverflows(SizeP, msg) == Len(msg) >= SizeP

\* StringStorage::Empty.
Empty(str) == Len(str) = 0

\* strcmp(a, b) != 0
StrDiffers(a, b) == a # b

\* --------------------------------------------------------------- discovery

\* Mutant: the exception is built without the ordinal.
CollectFailedException_NoOrdinal(ordinal, message) ==
  Exception("CollectFailedException", message)

\* CollectFailedException(ordinal, message).
CollectFailedException(ordinal, message) ==
  [Exception("CollectFailedException", message) EXCEPT !.Ordinal = ordinal]

\* Fail(msg): throw CaseFailed(msg), whose constructor assigns msg to the
\* Message buffer of kMaxMessage bytes.  When msg has kMaxMessage characters
\* or more, Assign writes the terminator one byte past the CaseFailed object
\* (undefined behaviour): "written", the byte lands behind the object and the
\* buffer reads as the first kMaxMessage characters, or "trapped", a build
\* that checks memory accesses ends the process there.
Fail(msg, overflow) ==
  IF AssignOverflows(kMaxMessage, msg) /\ overflow = "trapped"
    THEN Exception("trap", EmptyString)
    ELSE Exception("CaseFailed", Assign(kMaxMessage, msg))

\* The exception a body throws after StartCase has returned.
PostException(body) ==
  CASE body.post = "return" -> NoException
    [] body.post = "CaseFailed" -> Fail(body.msg, body.overflow)
    [] body.post = "std::exception" -> Exception("std::exception", WhatMessage)
    [] body.post = "ProcessCorruptedException" ->
         Exception("ProcessCorruptedException", CorruptMessage)
    [] OTHER -> Exception(body.post, EmptyString)

\* Mutant: the collector's StartCase returns to the body.
CollectorStartCase_Returns(caseName) == NoException

\* CaseCollector<N>::CollectorRuntime::StartCase: throws CaseIsReal.
CollectorStartCase(caseName) == Exception("CaseIsReal", EmptyString)

\* Case<N>(&collector): how the call of the body ends under the collector
\* runtime.  A body that calls StartCase goes on behind the call only when
\* the call returns.
CollectorCall(body) ==
  IF body.pre = "start"
    THEN IF CollectorStartCase(body.name).type # "none"
           THEN CollectorStartCase(body.name)
           ELSE PostException(body)
  ELSE IF body.pre = "return" THEN NoException
  ELSE Exception(body.pre, EmptyString)

\* The call of the body under the collector runtime executes the code of the
\* body that follows its StartCase call.
CollectorReaches(body) ==
  body.pre = "start" /\ CollectorStartCase(body.name).type = "none"

\* The zero-initialised static CaseListEntry.
ZeroCaseEntry == [Next |-> NullCase, CaseProc |-> NullCase, Ordinal |-> 0]

\* The result r of a walk, with ordinal n among the bodies called.
WithCalled(r, n) == [r EXCEPT !.called = @ \cup {n}]

\* Mutant: a stub is linked into the list like a real case.
RECURSIVE collect_LinksStubs(_, _, _, _)
collect_LinksStubs(m, N, tail, ents) ==
  IF N = -1 THEN [thrown |-> NoException, ret |-> tail, ents |-> ents, after |-> {}, called |-> {}]
  ELSE
    LET ended == CollectorCall(bodies[m][N])
        here == IF CollectorReaches(bodies[m][N]) THEN {N} ELSE {}
    IN
    CASE ended.type = "none" ->
           [thrown |-> CollectFailedException(N, <<"Case body does not start with StartTest()">>),
            ret |-> NullCase, ents |-> ents, after |-> here, called |-> {N}]
      [] ended.type \in {"CaseIsStub", "CaseIsReal"} ->
           WithCalled(collect_LinksStubs(m, N - 1, CasePtr(m, N),
                        [ents EXCEPT ![m][N] = [Next |-> tail, CaseProc |-> CasePtr(m, N),
                                                Ordinal |-> N]]), N)
      [] ended.type = "CollectFailedException" ->
           [thrown |-> ended, ret |-> NullCase, ents |-> ents, after |-> here, called |-> {N}]
      [] OTHER ->
           [thrown |-> CollectFailedException(N, <<"Case throws something before StartCase()">>),
            ret |-> NullCase, ents |-> ents, after |-> here, called |-> {N}]

\* Mutant: the walk goes on below a body that breaks the rule, and the
\* failure thrown is that of the lowest such body.
RECURSIVE collect_GoesOn(_, _, _, _)
collect_GoesOn(m, N, tail, ents) ==
  IF N = -1 THEN [thrown |-> NoException, ret |-> tail, ents |-> ents, after |-> {}, called |-> {}]
  ELSE
    LET ended == CollectorCall(bodies[m][N])
    IN
    CASE ended.type = "CaseIsStub" ->
           WithCalled(collect_GoesOn(m, N - 1, tail, ents), N)
      [] ended.type = "CaseIsReal" ->
           WithCalled(collect_GoesOn(m, N - 1, CasePtr(m, N),
                                     [ents EXCEPT ![m][N] = [Next |-> tail,
                                                             CaseProc |-> CasePtr(m, N),
                                                             Ordinal |-> N]]), N)
      [] OTHER ->
           LET below == WithCalled(collect_GoesOn(m, N - 1, tail, ents), N)
           IN IF below.thrown.type # "none" THEN below
              ELSE [below EXCEPT
                      !.thrown = CollectFailedException(N,
                                   IF ended.type = "none"
                                     THEN <<"Case body does not start with StartTest()">>
                                     ELSE <<"Case throws something before StartCase()">>),
                      !.ret = NullCase]

\* CaseCollector<N>::collect(tail) of translation unit m, down to
\* CaseCollector<-1>::collect.  Returns the exception thrown (or NoException),
\* the list head returned, the static entries as they are left, (after) the
\* ordinals of the bodies whose code behind StartCase was executed, and
\* (called) the ordinals of the bodies the walk has called.
RECURSIVE collect(_, _, _, _)
collect(m, N, tail, ents) ==
  IF N = -1 THEN [thrown |-> NoException, ret |-> tail, ents |-> ents, after |-> {}, called |-> {}]
  ELSE
    LET ended == CollectorCall(bodies[m][N])
        here == IF CollectorReaches(bodies[m][N]) THEN {N} ELSE {}
    IN
    CASE ended.type = "none" ->
           [thrown |-> CollectFailedException(N, <<"Case body does not start with StartTest()">>),
            ret |-> NullCase, ents |-> ents, after |-> here, called |-> {N}]
      [] ended.type = "CaseIsStub" ->
           WithCalled(collect(m, N - 1, tail, ents), N)
      [] ended.type = "CaseIsReal" ->
           WithCalled(collect(m, N - 1, CasePtr(m, N),
                              [ents EXCEPT ![m][N] = [Next |-> tail, CaseProc |-> CasePtr(m, N),
                                                      Ordinal |-> N]]), N)
      [] ended.type = "CollectFailedException" ->
           [thrown |-> ended, ret |-> NullCase, ents |-> ents, after |-> here, called |-> {N}]
      [] OTHER ->
           [thrown |-> CollectFailedException(N, <<"Case throws something before StartCase()">>),
            ret |-> NullCase, ents |-> ents, after |-> here, called |-> {N}]

\* GroupListEntry(name, fileName).
GroupListEntry(name, fileName) ==
  [Next |-> NullGroup, Name |-> name, FileName |-> fileName, CaseListHead |-> NullCase]

\* Mutant: the new entry is linked in front of the list.
AddGroup_Prepends(st, grps, newGroupEntry) ==
  [storage |-> [st EXCEPT !.m_groupListHead = newGroupEntry,
                          !.m_groupListTail = IF st.m_groupListTail = NullGroup
                                                THEN newGroupEntry ELSE st.m_groupListTail],
   groups  |-> [grps EXCEPT ![newGroupEntry].Next = st.m_groupListHead]]

\* Storage::AddGroup(newGroupEntry): links the entry behind the tail and moves
\* the tail to the end of the chain.  Returns the storage and the group objects.
RECURSIVE LastOfChain(_, _)
LastOfChain(grps, g) == IF grps[g].Next = NullGroup THEN g ELSE LastOfChain(grps, grps[g].Next)

AddGroup(st, grps, newGroupEntry) ==
  LET st1   == IF st.m_groupListTail = NullGroup
                 THEN [st EXCEPT !.m_groupListTail = newGroupEntry,
                                 !.m_groupListHead = newGroupEntry]
                 ELSE st
      grps1 == IF st.m_groupListTail = NullGroup
                 THEN grps
                 ELSE [grps EXCEPT ![st.m_groupListTail].Next = newGroupEntry]
  IN [storage |-> [st1 EXCEPT !.m_groupListTail = LastOfChain(grps1, st1.m_groupListTail)],
      groups  |-> grps1]

\* Mutant: a failure recorded after the first one is dropped.
AddCollectionError_KeepsFirst(st, cx) ==
  IF st.m_isCollectFailed THEN st
  ELSE [st EXCEPT !.m_isCollectFailed = TRUE, !.m_collectFailedError = cx]

\* Mutant: the failure is stored but the flag is not set.
AddCollectionError_NoFlag(st, cx) ==
  [st EXCEPT !.m_collectFailedError = cx]

\* Storage::AddCollectionError(cx).
AddCollectionError(st, cx) ==
  [st EXCEPT !.m_isCollectFailed = TRUE, !.m_collectFailedError = cx]

\* Subset(): the members the constructor sets; the static storage is
\* zero-initialised before, so its list pointers are null.
NewStorage ==
  [m_isCollectFailed |-> FALSE,
   m_collectFailedError |-> CollectFailedException(0, EmptyString),
   m_groupListHead |-> NullGroup,
   m_groupListTail |-> NullGroup,
   m_groupNameFilter |-> EmptyString,
   m_caseNameFilter |-> EmptyString,
   m_caseNumberFilter |-> -1]

\* Mutant: the constructor adds the group to the storage before it collects.
Group_AddsFirst(g, m, groupName, N) ==
  LET fileName == FileNames[m]
      c == collect(m, N, NullCase, caseEntries)
      this == [GroupListEntry(groupName, fileName) EXCEPT !.CaseListHead = c.ret]
      a == AddGroup(storage, [groups EXCEPT ![g] = this], g)
      ex == [c.thrown EXCEPT !.GroupName = groupName, !.FileName = fileName]
  IN /\ caseEntries' = c.ents
     /\ nGroups' = g
     /\ ctors' = Append(ctors, [tu |-> m, N |-> N, after |-> c.after,
                                called |-> c.called])
     /\ groups' = a.groups
     /\ IF c.thrown.type = "none"
          THEN /\ storage' = a.storage
               /\ collectErrors' = collectErrors
          ELSE /\ storage' = AddCollectionError(a.storage, ex)
               /\ collectErrors' = Append(collectErrors, ex)

\* Group::Group(groupName, CaseCollector<N>::collect, fileName) in translation
\* unit m: the g-th Group object of the program.
Group(g, m, groupName, N) ==
  LET fileName == FileNames[m]
      c == collect(m, N, NullCase, caseEntries)
      this == [GroupListEntry(groupName, fileName) EXCEPT !.CaseListHead = c.ret]
      grps == [groups EXCEPT ![g] = IF c.thrown.type = "none" THEN this
                                    ELSE GroupListEntry(groupName, fileName)]
      ex == [c.thrown EXCEPT !.GroupName = groupName, !.FileName = fileName]
  IN /\ caseEntries' = c.ents
     /\ nGroups' = g
     /\ ctors' = Append(ctors, [tu |-> m, N |-> N, after |-> c.after,
                                called |-> c.called])
     /\ IF c.thrown.type = "none"
          THEN LET a == AddGroup(storage, grps, g)
               IN /\ storage' = a.storage
                  /\ groups' = a.groups
                  /\ collectErrors' = collectErrors
          ELSE /\ storage' = AddCollectionError(storage, ex)
               /\ groups' = grps
               /\ collectErrors' = Append(collectErrors, ex)

\* -------------------------------------------------------------- the run

\* Subset::Stats().
Stats0 == [Skipped |-> 0, Failed |-> 0, Passed |-> 0]

\* One entry of the trace of a run: a callback of IProgressEvents with its
\* arguments, or ("Case") the call of a case body.  grp and ent name the group
\* and the case entry the engine is at, stats is the value of the Stats
\* result of the run at that moment (they are not passed to the observer).
Event(kind, name, ordinal, code, msg) ==
  [kind |-> kind, name |-> name, ordinal |-> ordinal, code |-> code, msg |-> msg,
   grp |-> NullGroup, ent |-> NullCase, stats |-> Stats0]
OnGroupStart(groupName)   == Event("OnGroupStart", groupName, 0, "", EmptyString)
OnCaseStart(name, ordinal) == Event("OnCaseStart", name, ordinal, "", EmptyString)
OnCaseDone(code, message) == Event("OnCaseDone", EmptyString, 0, code, message)
CaseCalled                == Event("Case", EmptyString, 0, "", EmptyString)

At(events, g, e, result) ==
  [i \in 1..Len(events) |-> [events[i] EXCEPT !.grp = g, !.ent = e, !.stats = result]]

\* Subset::Runtime::Runtime(progressEvents, caseNameFilter).
Runtime(caseNameFilter) ==
  [m_caseNameFilter |-> caseNameFilter, m_currentTestOrdinal |-> 0]

\* Mutant: the observer is told of the case before the name filter is looked at.
StartCase_ReportsFirst(runtime, testName) ==
  IF ~Empty(runtime.m_caseNameFilter) /\ StrDiffers(runtime.m_caseNameFilter, testName)
    THEN [thrown |-> Exception("CaseFiltered", EmptyString),
          events |-> <<OnCaseStart(testName, runtime.m_currentTestOrdinal)>>]
    ELSE [thrown |-> NoException,
          events |-> <<OnCaseStart(testName, runtime.m_currentTestOrdinal)>>]

\* Subset::Runtime::StartCase(testName): the exception thrown (or none) and
\* the callbacks made.
StartCase(runtime, testName) ==
  IF ~Empty(runtime.m_caseNameFilter) /\ StrDiffers(runtime.m_caseNameFilter, testName)
    THEN [thrown |-> Exception("CaseFiltered", EmptyString), events |-> <<>>]
    ELSE [thrown |-> NoException,
          events |-> <<OnCaseStart(testName, runtime.m_currentTestOrdinal)>>]

\* caseEntry->CaseProc(runtime): the call of a case body under the Runtime of
\* a run.
CaseProcCall(body, runtime) ==
  IF body.pre = "start"
    THEN LET s == StartCase(runtime, body.name)
         IN IF s.thrown.type # "none" THEN s
            ELSE [thrown |-> PostException(body), events |-> s.events]
    ELSE [thrown |-> IF body.pre = "return" THEN NoException
                     ELSE Exception(body.pre, EmptyString),
          events |-> <<>>]

\* ProcessCorruptedException::GetFormattedMessage.
ProcessCorruptedWhat(ex) ==
  <<"ProcessCorrupted. Case message: ">> \o ex.Message \o <<". File: '">> \o ex.FileName
    \o <<"', group : ">> \o ex.GroupName \o <<", case: #">> \o <<ToString(ex.Ordinal)>>

\* Mutant: the ordinal filter is taken to be set only when it is positive.
\* Mutant: a negative m_caseNumberFilter is compared like any other ordinal.
CaseExcludedByNumber_NoSentinel(self, caseNumber) ==
  self.m_caseNumberFilter # caseNumber

CaseExcludedByNumber_Positive(self, caseNumber) ==
  self.m_caseNumberFilter > 0 /\ self.m_caseNumberFilter # caseNumber

\* Subset::CaseExcludedByNumber(caseNumber).
CaseExcludedByNumber(self, caseNumber) ==
  self.m_caseNumberFilter >= 0 /\ self.m_caseNumberFilter # caseNumber

\* m_groupNameFilter.CData() as strcmp reads it.  A filter member holds the
\* characters of its buffer up to the terminator; a full buffer holds none, and
\* the read goes on in m_caseNameFilter, the member that follows it in Subset.
GroupNameFilterCData(self) ==
  IF Len(self.m_groupNameFilter) = kMaxGroupName
    THEN self.m_groupNameFilter \o self.m_caseNameFilter
    ELSE self.m_groupNameFilter

\* Mutant: the comparison is inverted (strcmp(...) == 0).
GroupExcludedByFilter_Inverted(self, group) ==
  ~Empty(self.m_groupNameFilter) /\ ~StrDiffers(groups[group].Name, self.m_groupNameFilter)

\* Mutant: no group is ever excluded.
GroupExcludedByFilter_Never(self, group) == FALSE

\* Subset::GroupExcludedByFilter(group).
GroupExcludedByFilter(self, group) ==
  ~Empty(self.m_groupNameFilter) /\ StrDiffers(groups[group].Name, GroupNameFilterCData(self))

\* The handlers of Subset::RunOneCase: what the function does when the call
\* of the body has ended.  acc holds the Runtime, the Stats and the trace of
\* the run so far; thrown is the exception that leaves the function.
RunOneCaseEnded(acc, g, caseEntry, call) ==
  LET seen == acc.trace \o At(<<CaseCalled>> \o call.events, g, caseEntry, acc.result)
      done(code, message) == seen \o At(<<OnCaseDone(code, message)>>, g, caseEntry, acc.result)
  IN CASE call.thrown.type = "none" ->
            [acc EXCEPT !.trace = done("Passed", EmptyString),
                        !.result.Passed = @ + 1]
       [] call.thrown.type = "CaseSkipped" ->
            [acc EXCEPT !.trace = done("Skipped", EmptyString),
                        !.result.Skipped = @ + 1]
       [] call.thrown.type = "CaseFiltered" ->
            [acc EXCEPT !.trace = seen]
       [] call.thrown.type = "CaseFailed" ->
            [acc EXCEPT !.trace = done("Failed", call.thrown.Message),
                        !.result.Failed = @ + 1]
       [] call.thrown.type = "trap" ->
            [acc EXCEPT !.trace = seen, !.thrown = call.thrown]
       [] call.thrown.type = "ProcessCorruptedException" ->
            [acc EXCEPT !.trace = seen,
                        !.thrown = [call.thrown EXCEPT
                                      !.Ordinal = caseEntries[caseEntry.tu][caseEntry.ord].Ordinal]]
       [] call.thrown.type \in {"std::exception", "CollectFailedException"} ->
            [acc EXCEPT !.trace = done("Failed", call.thrown.Message)]
       [] OTHER ->
            [acc EXCEPT !.trace = done("Failed", <<"Unknown exception">>)]

\* Mutant: the ordinal of the Runtime is not set before the body is called.
RuntimeAt_Stale(runtime, entry) == runtime

\* The Runtime after runtime->m_currentTestOrdinal = caseEntry->Ordinal.
RuntimeAt(runtime, entry) == [runtime EXCEPT !.m_currentTestOrdinal = entry.Ordinal]

\* The body caseEntry->CaseProc points to.
BodyAt(entry) == bodies[entry.CaseProc.tu][entry.CaseProc.ord]

\* Subset::RunOneCase(runtime, progressEvents, caseEntry, result).
RunOneCase(acc, g, caseEntry) ==
  RunOneCaseEnded([acc EXCEPT !.runtime = RuntimeAt(@, caseEntries[caseEntry.tu][caseEntry.ord])],
                  g, caseEntry,
                  CaseProcCall(BodyAt(caseEntries[caseEntry.tu][caseEntry.ord]),
                               RuntimeAt(acc.runtime, caseEntries[caseEntry.tu][caseEntry.ord])))

RECURSIVE RunCases(_, _, _, _)

\* Mutant: the loop goes on after RunOneCase has thrown.
RunCasesNext_GoesOn(self, a, g, next) == RunCases(self, a, g, next)

\* Mutant: the loop ends at the first failed case.
RunCasesNext_StopsAtFailure(self, a, g, next) ==
  IF a.thrown.type # "none" \/ a.result.Failed > 0 THEN a ELSE RunCases(self, a, g, next)

\* Mutant: a case that was reported as failed is run a second time.
RunCasesNext_RetriesFailed(self, a, g, next) ==
  LET last == a.trace[Len(a.trace)]
      calls == { i \in 1..Len(a.trace) : /\ a.trace[i].kind = "Case"
                                          /\ a.trace[i].grp = g
                                          /\ a.trace[i].ent = last.ent }
  IN IF a.thrown.type # "none" THEN a
     ELSE IF last.kind = "OnCaseDone" /\ last.code = "Failed" /\ Cardinality(calls) = 1
       THEN RunCases(self, a, g, last.ent)
       ELSE RunCases(self, a, g, next)

\* The while loop of Subset::RunGroup after one pass (a: the run so far): it
\* ends when RunOneCase has thrown, else goes on with cur = cur->Next.
RunCasesNext(self, a, g, next) ==
  IF a.thrown.type # "none" THEN a ELSE RunCases(self, a, g, next)

\* The while loop of Subset::RunGroup over the case list, from entry cur.
RunCases(self, acc, g, cur) ==
  IF cur = NullCase THEN acc
  ELSE RunCasesNext(self,
                    IF ~CaseExcludedByNumber(self, caseEntries[cur.tu][cur.ord].Ordinal)
                      THEN RunOneCase(acc, g, cur) ELSE acc,
                    g, caseEntries[cur.tu][cur.ord].Next)

\* Mutant: the handler of ProcessCorruptedException rethrows without
\* reporting the case as done.
RunGroupCatch_NoCaseDone(a, groupCur) ==
  IF a.thrown.type = "ProcessCorruptedException"
    THEN [a EXCEPT !.thrown = [a.thrown EXCEPT !.FileName = groups[groupCur].FileName,
                                               !.GroupName = groups[groupCur].Name]]
    ELSE a

\* The handler of Subset::RunGroup: catch (ProcessCorruptedException&), when
\* the loop over the cases has ended as a.
RunGroupCatch(a, groupCur) ==
  IF a.thrown.type = "ProcessCorruptedException"
    THEN LET processCorrupted == [a.thrown EXCEPT !.FileName = groups[groupCur].FileName,
                                                  !.GroupName = groups[groupCur].Name]
         IN [a EXCEPT !.thrown = processCorrupted,
                      !.trace = @ \o At(<<OnCaseDone("Failed",
                                           ProcessCorruptedWhat(processCorrupted))>>,
                                        groupCur, a.trace[Len(a.trace)].ent, a.result)]
    ELSE a

\* Subset::RunGroup(runtime, result, progressEvents, groupCur).
RunGroup(self, acc, groupCur) ==
  RunGroupCatch(RunCases(self,
                         [acc EXCEPT !.trace = @ \o At(<<OnGroupStart(groups[groupCur].Name)>>,
                                                       groupCur, NullCase, acc.result)],
                         groupCur, groups[groupCur].CaseListHead),
                groupCur)

RECURSIVE RunGroups(_, _, _)

\* Mutant: under a group-name filter the loop ends behind the first group it
\* has entered.
RunGroupsNext_StopsAtFirstMatch(self, a, next) ==
  IF a.thrown.type # "none" \/ (~Empty(self.m_groupNameFilter) /\ a.trace # <<>>)
    THEN a ELSE RunGroups(self, a, next)

\* The while loop of Subset::RunParamChecked after one pass (a: the run so
\* far): an exception leaves the function, else groupCur = groupCur->Next.
RunGroupsNext(self, a, next) ==
  IF a.thrown.type # "none" THEN a ELSE RunGroups(self, a, next)

\* The while loop of Subset::RunParamChecked over the group list.
RunGroups(self, acc, groupCur) ==
  IF groupCur = NullGroup THEN acc
  ELSE RunGroupsNext(self,
                     IF ~GroupExcludedByFilter(self, groupCur)
                       THEN RunGroup(self, acc, groupCur) ELSE acc,
                     groups[groupCur].Next)

\* Subset::RunParamChecked(progressEvents).
RunParamChecked(self) ==
  RunGroups(self,
            [runtime |-> Runtime(self.m_caseNameFilter), result |-> Stats0,
             trace |-> <<>>, thrown |-> NoException],
            self.m_groupListHead)

\* What the caller of Run() gets of a run r: the Stats it returns or the
\* exception it throws, and the trace of the run.
Ended(r) ==
  [state |-> CASE r.thrown.type = "none" -> "returned"
               [] r.thrown.type = "trap" -> "trapped"
               [] OTHER -> "thrown",
   result |-> r.result, trace |-> r.trace, thrown |-> r.thrown]

\* Mutant: Run() does not look at m_isCollectFailed.
Run_NoCollectCheck(self) == Ended(RunParamChecked(self))

\* Subset::Run(progressEvents).
Run(self) ==
  IF self.m_isCollectFailed
    THEN Ended([result |-> Stats0, trace |-> <<>>, thrown |-> self.m_collectFailedError])
    ELSE Ended(RunParamChecked(self))

\* main() of the console runner, from the Run() call on: the exit code of the
\* process for the outcome r of allTests.Run().  The handler of
\* ProcessCorruptedException prints and has no return statement: control
\* reaches the end of main, which returns 0.
main(r) ==
  CASE r.state = "returned" ->
         IF r.result.Failed # 0 THEN RetCode_TestsFailed ELSE RetCode_Ok
    [] r.state = "thrown" /\ r.thrown.type = "ProcessCorruptedException" -> 0
    [] r.state = "thrown" /\ r.thrown.type = "CollectFailedException" -> RetCode_FailedToStart

\* ------------------------------------------------------------- the queries

\* The queries copy the storage and assign the filters of the copy.  When a
\* name does not fit its buffer, the byte past the buffer that Assign writes
\* is the first byte of the member that follows: m_caseNameFilter behind
\* m_groupNameFilter, m_caseNumberFilter behind m_caseNameFilter.

\* Storage::ByGroupName(groupName).
ByGroupName(this, groupName) ==
  [this EXCEPT !.m_groupNameFilter = Assign(kMaxGroupName, groupName),
               !.m_caseNameFilter = IF AssignOverflows(kMaxGroupName, groupName)
                                      THEN EmptyString ELSE @]

\* Storage::ByGroupAndCaseName(groupName, caseName).
ByGroupAndCaseName(this, groupName, caseName) ==
  [this EXCEPT !.m_groupNameFilter = Assign(kMaxGroupName, groupName),
               !.m_caseNameFilter = Assign(kMaxGroupName, caseName),
               !.m_caseNumberFilter = IF AssignOverflows(kMaxGroupName, caseName)
                                        THEN 0 ELSE @]

\* Storage::ByGroupNameAndCaseNumber(groupName, caseNumber).
ByGroupNameAndCaseNumber(this, groupName, caseNumber) ==
  [this EXCEPT !.m_groupNameFilter = Assign(kMaxGroupName, groupName),
               !.m_caseNameFilter = IF AssignOverflows(kMaxGroupName, groupName)
                                      THEN EmptyString ELSE @,
               !.m_caseNumberFilter = caseNumber]

\* The Subset a Run() call acts on: Storage::GetAll() returns a reference to
\* the storage itself, the other queries return a copy.
Self == IF subset.kind = "ref" THEN storage ELSE subset.obj

\* --------------------------------------------------------------- the state

\* A query and the arguments the application passed to it.
Asked(query, groupName, caseName, caseNumber) ==
  [query |-> query, groupName |-> groupName, caseName |-> caseName, caseNumber |-> caseNumber]

NoRun == [state |-> "none", result |-> Stats0, trace |-> <<>>, thrown |-> NoException]

\* The application threads that call Run().
Threads == {1, 2}
\* A thread that has not called Run(): pc is the statement it is at, self the
\* Subset it calls Run() on, groupCur and cur the loop variables of
\* RunParamChecked and RunGroup, acc its Runtime, its Stats and the callbacks
\* its observer has received.
IdleThread ==
  [pc |-> "idle", self |-> NewStorage, groupCur |-> NullGroup, cur |-> NullCase,
   met |-> FALSE,
   acc |-> [runtime |-> Runtime(EmptyString), result |-> Stats0,
            trace |-> <<>>, thrown |-> NoException]]

TypeOK ==
  /\ nGroups \in 0..MaxGroups
  /\ Len(ctors) = nGroups
  /\ subset.kind \in {"none", "ref", "copy", "trapped"}
  /\ run.state \in {"none", "returned", "thrown", "trapped"}

\* The state when main() is entered: no Group constructed, the static storage
\* and the static case entries zero-initialised.
AtStart ==
  /\ caseEntries = [m \in Modules |-> [n \in Ordinals |-> ZeroCaseEntry]]
  /\ groups = [g \in GroupIds |-> GroupListEntry(EmptyString, EmptyString)]
  /\ nGroups = 0
  /\ storage = NewStorage
  /\ subset = [kind |-> "none", obj |-> NewStorage, failures |-> 0, asked |-> Asked("none", EmptyString, EmptyString, -1)]
  /\ run = NoRun
  /\ ctors = <<>>
  /\ collectErrors = <<>>
  /\ threads = [t \in Threads |-> IdleThread]
  /\ adders = [m \in Modules |-> [pc |-> "out", g |-> NullGroup, met |-> FALSE]]

Init == bodies \in Programs /\ AtStart

\* ------------------------------------------------------------- the actions

\* The process has not been ended by a trap.
Alive == subset.kind # "trapped" /\ run.state # "trapped"

\* A translation unit constructs its static tested::Group object.
NewGroup(m, groupName, N) ==
  /\ Alive
  /\ nGroups < MaxGroups
  /\ Group(nGroups + 1, m, groupName, N)
  /\ run' = NoRun
  /\ UNCHANGED <<bodies, subset, threads, adders>>

\* Mutant: a filtering query sets the filter in the storage itself before it
\* returns the copy.
Query_FiltersStorage(kind, obj, asked) ==
  /\ subset' = [kind |-> kind, obj |-> obj, failures |-> Len(collectErrors), asked |-> asked]
  /\ run' = NoRun
  /\ storage' = IF kind = "copy" THEN obj ELSE storage
  /\ UNCHANGED <<bodies, caseEntries, groups, nGroups, ctors, collectErrors, threads, adders>>

\* What the write past a filter buffer does in a query whose name argument
\* does not fit (undefined behaviour): "written", the byte lands in the member
\* that follows the buffer in the copy, or "trapped", a build that checks
\* array bounds ends the process.
QueryOutcomes(asked) ==
  IF AssignOverflows(kMaxGroupName, asked.groupName)
       \/ AssignOverflows(kMaxGroupName, asked.caseName)
    THEN {"written", "trapped"} ELSE {"written"}

\* The application obtains a Subset.  failures: the number of collection
\* failures recorded when the Subset was obtained; asked: the query and its
\* arguments (both history).
Query(kind, obj, asked) ==
  /\ Alive
  /\ \E outcome \in QueryOutcomes(asked) :
       subset' = [kind |-> IF outcome = "trapped" THEN "trapped" ELSE kind,
                  obj |-> obj, failures |-> Len(collectErrors), asked |-> asked]
  /\ run' = NoRun
  /\ UNCHANGED <<bodies, caseEntries, groups, nGroups, storage, ctors, collectErrors, threads, adders>>

\* Storage::Instance().GetAll().Run(...): the Subset is the storage itself.
GetAll == Query("ref", NewStorage, Asked("GetAll", EmptyString, EmptyString, -1))

\* tested::Subset allTests = Storage::Instance().GetAll(): a copy.
GetAllCopy == Query("copy", storage, Asked("GetAll", EmptyString, EmptyString, -1))

QueryByGroupName(groupName) ==
  Query("copy", ByGroupName(storage, groupName),
        Asked("ByGroupName", groupName, EmptyString, -1))

QueryByGroupAndCaseName(groupName, caseName) ==
  Query("copy", ByGroupAndCaseName(storage, groupName, caseName),
        Asked("ByGroupAndCaseName", groupName, caseName, -1))

QueryByGroupNameAndCaseNumber(groupName, caseNumber) ==
  Query("copy", ByGroupNameAndCaseNumber(storage, groupName, caseNumber),
        Asked("ByGroupNameAndCaseNumber", groupName, EmptyString, caseNumber))

\* The application calls Run() on the Subset it holds.
DoRun ==
  /\ Alive
  /\ subset.kind \in {"ref", "copy"}
  /\ run' = Run(Self)
  /\ UNCHANGED <<bodies, caseEntries, groups, nGroups, storage, subset, ctors, collectErrors,
               threads, adders>>

\* The unit m has constructed a Group.
HasGroup(m) == \E g \in 1..nGroups : groups[g].FileName = FileNames[m]

\* A unit constructs its one Group, collecting all its ordinals.
Register(m, groupName) ==
  /\ ~HasGroup(m)
  /\ NewGroup(m, groupName, MaxOrdinal)

Next ==
  \/ \E m \in Modules : \E groupName \in GroupNamesOf(m) : Register(m, groupName)
  \/ GetAll
  \/ GetAllCopy
  \/ \E groupName \in FilterGroupNames : QueryByGroupName(groupName)
  \/ \E groupName \in FilterGroupNames, caseName \in FilterCaseNames :
       QueryByGroupAndCaseName(groupName, caseName)
  \/ \E groupName \in FilterGroupNames, caseNumber \in FilterOrdinals :
       QueryByGroupNameAndCaseNumber(groupName, caseNumber)
  \/ DoRun

Spec == Init /\ [][Next]_vars

\* Registration alone: a unit may construct several Group objects, each with
\* a collector of its own maximum ordinal.
InitCollect == bodies \in ProgramsCollect /\ AtStart

NextCollect ==
  \E m \in Modules, N \in Ordinals : \E groupName \in GroupNamesOf(m) : NewGroup(m, groupName, N)

SpecCollect == InitCollect /\ [][NextCollect]_vars

\* Names at the size of the filter buffers: units whose groups and cases carry
\* names of 64 and 65 characters, and queries by such names.
InitNames == bodies \in ProgramsNames /\ AtStart

NextNames ==
  \/ \E m \in Modules : \E groupName \in LongGroupNames : Register(m, groupName)
  \/ \E groupName \in FilterLongGroupNames : QueryByGroupName(groupName)
  \/ \E groupName \in FilterLongGroupNames, caseName \in FilterLongCaseNames :
       QueryByGroupAndCaseName(groupName, caseName)
  \/ \E groupName \in FilterLongGroupNames, caseNumber \in FilterOrdinals :
       QueryByGroupNameAndCaseNumber(groupName, caseNumber)
  \/ DoRun

SpecNames == InitNames /\ [][NextNames]_vars

\* Texts at the size of the message buffer: a unit holds a case that fails
\* with a text of up to kMaxMessage + 1 characters.
\* The texts the units of the fourth specification pass to Fail: the text of
\* the vector demo ("Vector must be empty by default"), and texts of
\* kMaxMessage - 1, kMaxMessage and kMaxMessage + 1 characters.
VectorMessage ==
  <<"V", "e", "c", "t", "o", "r", " ", "m", "u", "s", "t", " ",
    "b", "e", " ", "e", "m", "p", "t", "y", " ", "b", "y", " ",
    "d", "e", "f", "a", "u", "l", "t">>
MessageOfLen(n) == [i \in 1..n |-> "m"]
FailMessages ==
  {VectorMessage, MessageOfLen(kMaxMessage - 1), MessageOfLen(kMaxMessage),
   MessageOfLen(kMaxMessage + 1)}
\* What the write past the CaseFailed object may do for the text msg.
FailOutcomes(msg) ==
  IF AssignOverflows(kMaxMessage, msg) THEN {"written", "trapped"} ELSE {"written"}
\* A case that calls Fail(msg) behind StartCase.
FailBody(n, msg, overflow) ==
  [RealBody(n, "CaseFailed") EXCEPT !.msg = msg, !.overflow = overflow]
\* A unit of passing cases, one of which fails with one of the texts; the
\* companion passes.
MessageTables ==
  UNION { { [[n \in Ordinals |-> PassBody(n)] EXCEPT ![k] = FailBody(k, msg, o)] :
              o \in FailOutcomes(msg) } : k \in Ordinals, msg \in FailMessages }
ProgramsMessages ==
  { [m \in Modules |-> IF m = 1 THEN t ELSE [n \in Ordinals |-> PassBody(n)]] :
      t \in MessageTables }

InitMessages == bodies \in ProgramsMessages /\ AtStart

NextMessages ==
  \/ \E m \in Modules : \E groupName \in GroupNamesOf(m) : Register(m, groupName)
  \/ GetAll
  \/ GetAllCopy
  \/ DoRun

SpecMessages == InitMessages /\ [][NextMessages]_vars

\* ------------------------------------------ Run(), statement by statement

\* Two application threads call Run() while no Group is constructed any
\* more.  A step of a thread is one pass of a loop of RunParamChecked or
\* RunGroup, or the call of one case body with its handlers.

\* The units of the fifth specification: all cases pass; they skip, fail,
\* throw and pass in turn; one case declares the process corrupted; one body
\* returns without StartCase, which fails the collection.
PassTable == [n \in Ordinals |-> PassBody(n)]
MixedTable == [n \in Ordinals |-> RealBody(n, MixedPost(n))]
ThreadTables ==
  {PassTable, MixedTable,
   [PassTable EXCEPT ![1] = RealBody(1, "ProcessCorruptedException")],
   [PassTable EXCEPT ![0] = CaseBody("return", EmptyString, "return")]}
ProgramsThreads == { [m \in Modules |-> IF m = 1 THEN t ELSE MixedTable] : t \in ThreadTables }

\* The Subsets the threads call Run() on: the storage itself (GetAll) and
\* copies of it with a filter.
ThreadSubsets ==
  {storage, ByGroupName(storage, <<"B">>), ByGroupNameAndCaseNumber(storage, <<"A">>, 1),
   ByGroupAndCaseName(storage, EmptyString, <<"a">>)}

\* No thread is in Run() or has called it.
AllIdle == \A t \in Threads : threads[t].pc = "idle"
\* Thread t is inside Run().
InRun(t) == threads[t].pc \in {"group", "case", "call"}
\* met (history): the thread has taken a step of its Run() while another
\* thread was inside Run().
Met(t) == threads[t].met \/ \E u \in Threads \ {t} : InRun(u)

\* Mutant: the Stats of RunParamChecked is a static, shared by the calls.
RunParamCheckedLocals_StaticStats(t, self) ==
  [runtime |-> Runtime(self.m_caseNameFilter),
   result |-> threads[CHOOSE u \in Threads : u # t].acc.result,
   trace |-> <<>>, thrown |-> NoException]

\* The locals of RunParamChecked when thread t enters it: Runtime
\* runtime(progressEvents, m_caseNameFilter.CData()); Stats result.
RunParamCheckedLocals(t, self) ==
  [runtime |-> Runtime(self.m_caseNameFilter), result |-> Stats0,
   trace |-> <<>>, thrown |-> NoException]

\* Mutant: the Runtime is a static of the Subset class, the one thread 1 set up.
RuntimeOf_Static(t) == threads[1].acc.runtime

\* The Runtime thread t passes to the case body: the local of its own
\* RunParamChecked call.
RuntimeOf(t) == threads[t].acc.runtime

\* Thread t calls self.Run(&observer): the check of m_isCollectFailed and the
\* entry of RunParamChecked.
ThreadRun(t, self) ==
  /\ threads[t].pc = "idle"
  /\ nGroups > 0
  /\ threads' = [threads EXCEPT ![t] =
       IF self.m_isCollectFailed
         THEN [@ EXCEPT !.pc = "done", !.self = self, !.met = Met(t),
                        !.acc.thrown = self.m_collectFailedError]
         ELSE [pc |-> "group", self |-> self, groupCur |-> self.m_groupListHead,
               cur |-> NullCase, met |-> Met(t), acc |-> RunParamCheckedLocals(t, self)]]
  /\ UNCHANGED <<bodies, caseEntries, groups, nGroups, storage, subset, run, ctors,
                 collectErrors, adders>>

\* One pass of the loop of RunParamChecked in thread t: the loop ends, skips
\* the group, or enters RunGroup (OnGroupStart, cur = groupCur->CaseListHead).
ThreadGroup(t) ==
  /\ threads[t].pc = "group"
  /\ threads' = [threads EXCEPT ![t] =
       LET th == [threads[t] EXCEPT !.met = Met(t)]
       IN IF th.groupCur = NullGroup THEN [th EXCEPT !.pc = "done"]
          ELSE IF GroupExcludedByFilter(th.self, th.groupCur)
            THEN [th EXCEPT !.groupCur = groups[th.groupCur].Next]
            ELSE [th EXCEPT !.pc = "case",
                            !.cur = groups[th.groupCur].CaseListHead,
                            !.acc.trace = @ \o At(<<OnGroupStart(groups[th.groupCur].Name)>>,
                                                  th.groupCur, NullCase, th.acc.result)]]
  /\ UNCHANGED <<bodies, caseEntries, groups, nGroups, storage, subset, run, ctors,
                 collectErrors, adders>>

\* Mutant: a case excluded by its ordinal is not stepped over.
ThreadCase_StaysAtExcluded(t) ==
  /\ threads[t].pc = "case"
  /\ threads' = [threads EXCEPT ![t] =
       LET th == [threads[t] EXCEPT !.met = Met(t)]
       IN IF th.cur = NullCase
            THEN [th EXCEPT !.pc = "group", !.groupCur = groups[th.groupCur].Next]
          ELSE IF CaseExcludedByNumber(th.self, caseEntries[th.cur.tu][th.cur.ord].Ordinal)
            THEN th
            ELSE [th EXCEPT !.pc = "call",
                            !.acc.runtime = RuntimeAt(@, caseEntries[th.cur.tu][th.cur.ord])]]
  /\ UNCHANGED <<bodies, caseEntries, groups, nGroups, storage, subset, run, ctors,
                 collectErrors, adders>>

\* One pass of the loop of RunGroup in thread t, up to the call of the body:
\* the loop ends (groupCur = groupCur->Next), skips the case, or enters
\* RunOneCase and stores the ordinal in the Runtime.
ThreadCase(t) ==
  /\ threads[t].pc = "case"
  /\ threads' = [threads EXCEPT ![t] =
       LET th == [threads[t] EXCEPT !.met = Met(t)]
       IN IF th.cur = NullCase
            THEN [th EXCEPT !.pc = "group", !.groupCur = groups[th.groupCur].Next]
          ELSE IF CaseExcludedByNumber(th.self, caseEntries[th.cur.tu][th.cur.ord].Ordinal)
            THEN [th EXCEPT !.cur = caseEntries[th.cur.tu][th.cur.ord].Next]
            ELSE [th EXCEPT !.pc = "call",
                            !.acc.runtime = RuntimeAt(@, caseEntries[th.cur.tu][th.cur.ord])]]
  /\ UNCHANGED <<bodies, caseEntries, groups, nGroups, storage, subset, run, ctors,
                 collectErrors, adders>>

\* What RunOneCase and the handler of RunGroup leave of the call of the body
\* of the case thread th is at, made with the Runtime runtime.
ThreadCalled(th, runtime) ==
  RunGroupCatch(RunOneCaseEnded(th.acc, th.groupCur, th.cur,
                                CaseProcCall(BodyAt(caseEntries[th.cur.tu][th.cur.ord]), runtime)),
                th.groupCur)

\* Thread t calls caseEntry->CaseProc(runtime) and handles what it throws: an
\* exception that leaves RunGroup ends Run(), else cur = cur->Next.
ThreadCall(t) ==
  /\ threads[t].pc = "call"
  /\ threads' = [threads EXCEPT ![t] =
       LET th == [threads[t] EXCEPT !.met = Met(t)]
           a == ThreadCalled(th, RuntimeOf(t))
       IN IF a.thrown.type # "none"
            THEN [th EXCEPT !.pc = "done", !.acc = a]
            ELSE [th EXCEPT !.pc = "case", !.acc = a,
                            !.cur = caseEntries[th.cur.tu][th.cur.ord].Next]]
  /\ UNCHANGED <<bodies, caseEntries, groups, nGroups, storage, subset, run, ctors,
                 collectErrors, adders>>

\* A unit constructs its Group before any thread calls Run().
RegisterEarly(m, groupName) == AllIdle /\ Register(m, groupName)

InitThreads == bodies \in ProgramsThreads /\ AtStart

NextThreads ==
  \/ \E m \in Modules : \E groupName \in GroupNamesOf(m) : RegisterEarly(m, groupName)
  \/ \E t \in Threads : \E self \in ThreadSubsets : ThreadRun(t, self)
  \/ \E t \in Threads : ThreadGroup(t)
  \/ \E t \in Threads : ThreadCase(t)
  \/ \E t \in Threads : ThreadCall(t)

SpecThreads == InitThreads /\ [][NextThreads]_vars

\* One thread calls Run() over a registry in which a unit may have
\* constructed several Groups, each with a collector of its own maximum
\* ordinal.
NewGroupEarly(m, groupName, N) == AllIdle /\ NewGroup(m, groupName, N)

\* A step of the Run() call of thread t.
RunStep(t) == ThreadGroup(t) \/ ThreadCase(t) \/ ThreadCall(t)

NextLive ==
  \/ \E m \in Modules, N \in Ordinals : \E groupName \in GroupNamesOf(m) :
       NewGroupEarly(m, groupName, N)
  \/ \E self \in ThreadSubsets : ThreadRun(1, self)
  \/ ThreadGroup(1)
  \/ ThreadCase(1)
  \/ ThreadCall(1)

\* The thread inside Run() goes on executing: the bodies terminate, and Run()
\* waits for nothing.
SpecLive == InitThreads /\ [][NextLive]_vars /\ WF_vars(RunStep(1))

\* ------------------------------------- AddGroup(), statement by statement

\* The Group objects of the two units are constructed in two threads.  The
\* collection of a unit writes the case entries of that unit alone; AddGroup
\* reads and writes the list pointers of the one storage and holds no lock.
\* A step is the test of the tail, the assignment of its branch, or the loop
\* that moves the tail.

\* The units of the sixth specification: their cases pass, or a stub lies
\* between them, or they skip, fail, throw and pass in turn.
RaceTables == {PassTable, MixedTable} \cup { [PassTable EXCEPT ![n] = StubBody] : n \in Ordinals }
ProgramsRace == { [m \in Modules |-> IF m = 1 THEN t ELSE c] : t \in RaceTables, c \in RaceTables }

\* The Group of unit m is inside AddGroup.
InAddGroup(m) == adders[m].pc \in {"test", "first", "link", "advance"}
\* met (history): AddGroup of unit m has taken a step while the AddGroup of
\* another unit was under way.
MetAdder(m) == adders[m].met \/ \E u \in Modules \ {m} : InAddGroup(u)

\* Group::Group of unit m up to the call of AddGroup: the collection and the
\* members of the group entry.
GroupBegin(m, groupName) ==
  /\ adders[m].pc = "out"
  /\ nGroups < MaxGroups
  /\ LET g == nGroups + 1
         c == collect(m, MaxOrdinal, NullCase, caseEntries)
     IN /\ c.thrown.type = "none"
        /\ caseEntries' = c.ents
        /\ nGroups' = g
        /\ ctors' = Append(ctors, [tu |-> m, N |-> MaxOrdinal, after |-> c.after,
                                called |-> c.called])
        /\ groups' = [groups EXCEPT ![g] = [GroupListEntry(groupName, FileNames[m])
                                              EXCEPT !.CaseListHead = c.ret]]
        /\ adders' = [adders EXCEPT ![m] = [pc |-> "test", g |-> g, met |-> FALSE]]
  /\ UNCHANGED <<bodies, storage, subset, run, collectErrors, threads>>

\* if (m_groupListTail == nullptr): the read of the tail.
AddGroupTest(m) ==
  /\ adders[m].pc = "test"
  /\ adders' = [adders EXCEPT ![m].met = MetAdder(m),
                              ![m].pc = IF storage.m_groupListTail = NullGroup
                                          THEN "first" ELSE "link"]
  /\ UNCHANGED <<bodies, caseEntries, groups, nGroups, storage, subset, run, ctors,
                 collectErrors, threads>>

\* m_groupListTail = m_groupListHead = newGroupEntry.
AddGroupFirst(m) ==
  /\ adders[m].pc = "first"
  /\ storage' = [storage EXCEPT !.m_groupListHead = adders[m].g,
                                !.m_groupListTail = adders[m].g]
  /\ adders' = [adders EXCEPT ![m].met = MetAdder(m), ![m].pc = "advance"]
  /\ UNCHANGED <<bodies, caseEntries, groups, nGroups, subset, run, ctors,
                 collectErrors, threads>>

\* m_groupListTail->Next = newGroupEntry.
AddGroupLink(m) ==
  /\ adders[m].pc = "link"
  /\ groups' = [groups EXCEPT ![storage.m_groupListTail].Next = adders[m].g]
  /\ adders' = [adders EXCEPT ![m].met = MetAdder(m), ![m].pc = "advance"]
  /\ UNCHANGED <<bodies, caseEntries, nGroups, storage, subset, run, ctors,
                 collectErrors, threads>>

\* Mutant: the tail stays where it is.
AddGroupAdvance_Stays(m) ==
  /\ adders[m].pc = "advance"
  /\ adders' = [adders EXCEPT ![m].met = MetAdder(m), ![m].pc = "done"]
  /\ UNCHANGED <<bodies, caseEntries, groups, nGroups, storage, subset, run, ctors,
                 collectErrors, threads>>

\* while (m_groupListTail->Next != nullptr) m_groupListTail = m_groupListTail->Next.
AddGroupAdvance(m) ==
  /\ adders[m].pc = "advance"
  /\ storage' = [storage EXCEPT !.m_groupListTail = LastOfChain(groups, @)]
  /\ adders' = [adders EXCEPT ![m].met = MetAdder(m), ![m].pc = "done"]
  /\ UNCHANGED <<bodies, caseEntries, groups, nGroups, subset, run, ctors,
                 collectErrors, threads>>

InitRace == bodies \in ProgramsRace /\ AtStart

NextRace ==
  \/ \E m \in Modules : \E groupName \in GroupNames : GroupBegin(m, groupName)
  \/ \E m \in Modules : AddGroupTest(m)
  \/ \E m \in Modules : AddGroupFirst(m)
  \/ \E m \in Modules : AddGroupLink(m)
  \/ \E m \in Modules : AddGroupAdvance(m)

SpecRace == InitRace /\ [][NextRace]_vars

\* ------------------------------- the earlier definition of Subset

\* The second half of tested.h holds the header as it was before: Subset has
\* ByGroupName as its one filtering query, a std::array for the group-name
\* filter, and a Runtime without a case-name filter.  Registration is the
\* current one word for word.

\* Subset::ByGroupName(name), earlier definition: copy_n of at most
\* kMaxGroupName - 1 characters and a terminator behind them.
EarlierByGroupName(this, name) ==
  [this EXCEPT !.m_groupNameFilter = SubSeq(name, 1, Min(Len(name), kMaxGroupName - 1))]

\* Subset::GroupExcludedByFilter(group), earlier definition:
\* m_GroupNameFilter[0] != 0 && strcmp(group->Name, m_GroupNameFilter.data()) == 0.
EarlierGroupExcludedByFilter(self, group) ==
  ~Empty(self.m_groupNameFilter) /\ ~StrDiffers(groups[group].Name, self.m_groupNameFilter)

\* Subset::Runtime::StartCase(testName), earlier definition: no filter.
EarlierStartCase(runtime, testName) ==
  [thrown |-> NoException, events |-> <<OnCaseStart(testName, runtime.m_currentTestOrdinal)>>]

\* caseEntry->CaseProc(runtime) under the earlier Runtime.
EarlierCaseProcCall(body, runtime) ==
  IF body.pre = "start"
    THEN [thrown |-> PostException(body), events |-> EarlierStartCase(runtime, body.name).events]
    ELSE [thrown |-> IF body.pre = "return" THEN NoException
                     ELSE Exception(body.pre, EmptyString),
          events |-> <<>>]

\* The handlers of the earlier Subset::RunOneCase, when the call has ended.
EarlierRunOneCaseEnded(acc, g, caseEntry, call) ==
  LET seen == acc.trace \o At(<<CaseCalled>> \o call.events, g, caseEntry, acc.result)
      done(code, message) == seen \o At(<<OnCaseDone(code, message)>>, g, caseEntry, acc.result)
  IN CASE call.thrown.type = "none" ->
            [acc EXCEPT !.trace = done("Passed", EmptyString), !.result.Passed = @ + 1]
       [] call.thrown.type = "CaseSkipped" ->
            [acc EXCEPT !.trace = done("Skipped", EmptyString), !.result.Skipped = @ + 1]
       [] call.thrown.type = "CaseFailed" ->
            [acc EXCEPT !.trace = done("Failed", call.thrown.Message), !.result.Failed = @ + 1]
       [] call.thrown.type = "std::exception" ->
            [acc EXCEPT !.trace = done("Failed", call.thrown.Message)]
       [] OTHER ->
            [acc EXCEPT !.trace = done("Failed", <<"Unknown exception">>)]

\* Subset::RunOneCase(runtime, progressEvents, caseEntry, result), earlier
\* definition.
EarlierRunOneCase(acc, g, caseEntry) ==
  EarlierRunOneCaseEnded(
    [acc EXCEPT !.runtime = RuntimeAt(@, caseEntries[caseEntry.tu][caseEntry.ord])],
    g, caseEntry,
    EarlierCaseProcCall(BodyAt(caseEntries[caseEntry.tu][caseEntry.ord]),
                        RuntimeAt(acc.runtime, caseEntries[caseEntry.tu][caseEntry.ord])))

\* The while loop of the earlier Subset::RunGroup, from entry cur.
RECURSIVE EarlierRunCases(_, _, _)
EarlierRunCases(acc, g, cur) ==
  IF cur = NullCase THEN acc
  ELSE EarlierRunCases(EarlierRunOneCase(acc, g, cur), g, caseEntries[cur.tu][cur.ord].Next)

\* Subset::RunGroup, earlier definition: OnGroupStart, then the cases.
EarlierRunGroup(acc, groupCur) ==
  EarlierRunCases([acc EXCEPT !.trace = @ \o At(<<OnGroupStart(groups[groupCur].Name)>>,
                                                groupCur, NullCase, acc.result)],
                  groupCur, groups[groupCur].CaseListHead)

\* The while loop of the earlier Subset::RunParamChecked.
RECURSIVE EarlierRunGroups(_, _, _)
EarlierRunGroups(self, acc, groupCur) ==
  IF groupCur = NullGroup THEN acc
  ELSE EarlierRunGroups(self,
                        IF ~EarlierGroupExcludedByFilter(self, groupCur)
                          THEN EarlierRunGroup(acc, groupCur) ELSE acc,
                        groups[groupCur].Next)

\* Subset::Run(progressEvents), earlier definition.
EarlierRun(self) ==
  IF self.m_isCollectFailed
    THEN Ended([result |-> Stats0, trace |-> <<>>, thrown |-> self.m_collectFailedError])
    ELSE Ended(EarlierRunGroups(self,
                                [runtime |-> Runtime(EmptyString), result |-> Stats0,
                                 trace |-> <<>>, thrown |-> NoException],
                                self.m_groupListHead))

\* Storage::Instance().GetAll().ByGroupName(groupName) of the earlier header.
QueryEarlierByGroupName(groupName) ==
  Query("copy", EarlierByGroupName(storage, groupName),
        Asked("EarlierByGroupName", groupName, EmptyString, -1))

\* The application calls the earlier Run() on the Subset it holds.
DoRunEarlier ==
  /\ subset.kind = "copy"
  /\ run' = EarlierRun(Self)
  /\ UNCHANGED <<bodies, caseEntries, groups, nGroups, storage, subset, ctors, collectErrors,
                 threads, adders>>

InitEarlier == bodies \in ProgramsRace /\ AtStart

NextEarlier ==
  \/ \E m \in Modules : \E groupName \in GroupNames : Register(m, groupName)
  \/ \E groupName \in FilterGroupNames : QueryEarlierByGroupName(groupName)
  \/ DoRunEarlier

SpecEarlier == InitEarlier /\ [][NextEarlier]_vars

\* ---------------------------------------------------- views of the state

\* The registry as the sequence of the groups reachable from a list head.
RECURSIVE ChainFrom(_, _)
ChainFrom(grps, g) == IF g = NullGroup THEN <<>> ELSE <<g>> \o ChainFrom(grps, grps[g].Next)
Chain == ChainFrom(groups, storage.m_groupListHead)

\* The case entries reachable from the CaseListHead of group g, in list order.
RECURSIVE CaseListFrom(_, _)
CaseListFrom(ents, c) ==
  IF c = NullCase THEN <<>> ELSE <<c>> \o CaseListFrom(ents, ents[c.tu][c.ord].Next)
CaseList(g) == CaseListFrom(caseEntries, groups[g].CaseListHead)
CaseOrdinals(g) == [i \in 1..Len(CaseList(g)) |->
                      caseEntries[CaseList(g)[i].tu][CaseList(g)[i].ord].Ordinal]

Range(seq) == { seq[i] : i \in 1..Len(seq) }
IsPrefix(a, b) == Len(a) <= Len(b) /\ a = SubSeq(b, 1, Len(a))
RECURSIVE Ascending(_)
Ascending(S) == IF S = {} THEN <<>>
                ELSE LET x == CHOOSE y \in S : \A z \in S : y <= z
                     IN <<x>> \o Ascending(S \ {x})

\* The body the case entry c calls, and the ordinal the entry holds.
BodyOf(c) == bodies[c.tu][c.ord]
OrdinalOf(c) == caseEntries[c.tu][c.ord].Ordinal

\* The callbacks the observer received in the run, in order.
IsCallback(e) == e.kind # "Case"
Callbacks == SelectSeq(run.trace, IsCallback)
CountKind(kind) == Cardinality({ i \in 1..Len(run.trace) : run.trace[i].kind = kind })
\* The case bodies the run called, in order.
IsCase(e) == e.kind = "Case"
Invoked == LET c == SelectSeq(run.trace, IsCase)
           IN [i \in 1..Len(c) |-> [grp |-> c[i].grp, ent |-> c[i].ent]]
\* The positions of the trace where a case was started, and those where the
\* started body then declares the process corrupted.
StartedAt == { i \in 1..Len(run.trace) : run.trace[i].kind = "OnCaseStart" }
CorruptedAt == { i \in StartedAt : BodyOf(run.trace[i].ent).post = "ProcessCorruptedException" }

\* The filter of Subset f lets the group g / the case entry c through.
GroupSelected(f, g) == Empty(f.m_groupNameFilter) \/ groups[g].Name = f.m_groupNameFilter
OrdinalSelected(f, c) == f.m_caseNumberFilter < 0 \/ OrdinalOf(c) = f.m_caseNumberFilter
NameSelected(f, c) == Empty(f.m_caseNameFilter) \/ BodyOf(c).name = f.m_caseNameFilter

\* The cases of the catalog that the group and ordinal filters of f let
\* through, in registration and declaration order.
RECURSIVE SelectedCases(_, _)
SelectedCases(f, chain) ==
  IF chain = <<>> THEN <<>>
  ELSE LET g == Head(chain)
           IsIn(c) == OrdinalSelected(f, c)
           cs == SelectSeq(CaseList(g), IsIn)
       IN (IF GroupSelected(f, g) THEN [i \in 1..Len(cs) |-> [grp |-> g, ent |-> cs[i]]] ELSE <<>>)
          \o SelectedCases(f, Tail(chain))
Expected == SelectedCases(Self, ChainFrom(groups, Self.m_groupListHead))

\* ------------------------------------------------------------- the claims

\* C1: when a collection failure was recorded before the Subset was obtained,
\* Run() on it throws the stored CollectFailedException, makes no observer
\* callback and calls no case body, whatever the filter.
C1_RunThrowsStoredCollectError ==
  (run.state # "none" /\ subset.failures > 0) =>
    /\ run.state = "thrown"
    /\ run.thrown.type = "CollectFailedException"
    /\ run.thrown = collectErrors[IF subset.kind = "ref" THEN Len(collectErrors)
                                  ELSE subset.failures]
    /\ run.trace = <<>>

\* A by-group Subset naming a registered group with cases was obtained after a
\* failure, and Run() has thrown.
C1_Witness ==
  /\ run.state = "thrown"
  /\ subset.failures > 0
  /\ subset.kind = "copy"
  /\ \E g \in Range(Chain) : /\ subset.obj.m_groupNameFilter = groups[g].Name
                             /\ CaseList(g) # <<>>

\* C2: when Run() returns, Passed + Skipped + Failed is the number of
\* OnCaseStart callbacks of the run.
C2_StatsSumIsStartedCount ==
  run.state = "returned" =>
    run.result.Passed + run.result.Skipped + run.result.Failed = CountKind("OnCaseStart")

C3_WitnessByName ==
  /\ StartedAt # {}
  /\ ~Empty(Self.m_caseNameFilter)
  /\ \E g \in Range(Chain) : GroupSelected(Self, g)
                             /\ \E c \in Range(CaseList(g)) : ~NameSelected(Self, c)

\* C4: when a started case body throws ProcessCorruptedException, no further
\* case body is called and no OnGroupStart or OnCaseStart follows; Run() throws
\* the exception, which carries the name and the file of the group being run
\* and the ordinal of the corrupting case.
C4_CorruptedAbortsRun ==
  \A i \in CorruptedAt :
    LET e == run.trace[i]
    IN /\ \A j \in (i + 1)..Len(run.trace) :
            run.trace[j].kind \notin {"Case", "OnGroupStart", "OnCaseStart"}
       /\ run.state = "thrown"
       /\ run.thrown.type = "ProcessCorruptedException"
       /\ run.thrown.GroupName = groups[e.grp].Name
       /\ run.thrown.FileName = groups[e.grp].FileName
       /\ run.thrown.Ordinal = OrdinalOf(e.ent)

\* An unfiltered run was corrupted by a case that has a successor in its group,
\* in a group that has a successor with cases.
C4_Witness ==
  /\ Empty(Self.m_groupNameFilter) /\ Empty(Self.m_caseNameFilter)
  /\ Self.m_caseNumberFilter < 0
  /\ \E i \in CorruptedAt :
       LET e == run.trace[i]
       IN /\ caseEntries[e.ent.tu][e.ent.ord].Next # NullCase
          /\ groups[e.grp].Next # NullGroup
          /\ CaseList(groups[e.grp].Next) # <<>>
          /\ OrdinalOf(e.ent) > 0

\* C5: every OnCaseStart is followed at once by one OnCaseDone, and every
\* OnCaseDone follows an OnCaseStart at once; the corrupting case gets its
\* OnCaseDone(Failed) as the last callback before the exception leaves Run().
C5_StartAndDonePair ==
  /\ \A i \in 1..Len(Callbacks) :
       /\ Callbacks[i].kind = "OnCaseStart" =>
            i < Len(Callbacks) /\ Callbacks[i + 1].kind = "OnCaseDone"
       /\ Callbacks[i].kind = "OnCaseDone" =>
            i > 1 /\ Callbacks[i - 1].kind = "OnCaseStart"
                  /\ Callbacks[i - 1].ent = Callbacks[i].ent
  /\ run.thrown.type = "ProcessCorruptedException" =>
       /\ Len(Callbacks) >= 2
       /\ Callbacks[Len(Callbacks)].kind = "OnCaseDone"
       /\ Callbacks[Len(Callbacks)].code = "Failed"

\* A corrupted run that had already finished another case.
C5_Witness ==
  /\ run.thrown.type = "ProcessCorruptedException"
  /\ Cardinality(StartedAt) >= 2

\* C6: the Stats Run() returns count each started case once, under the outcome
\* of its body: Passed when it returns, Skipped when it skips, Failed when it
\* fails or throws any other error; and the OnCaseDone of the case carries that
\* outcome.
OutcomeOf(post) ==
  CASE post = "return" -> "Passed"
    [] post = "CaseSkipped" -> "Skipped"
    [] OTHER -> "Failed"
StartedWith(outcome) ==
  Cardinality({ i \in StartedAt : OutcomeOf(BodyOf(run.trace[i].ent).post) = outcome })
C6_OneCounterPerOutcome ==
  run.state = "returned" =>
    /\ run.result.Passed = StartedWith("Passed")
    /\ run.result.Skipped = StartedWith("Skipped")
    /\ run.result.Failed = StartedWith("Failed")
    /\ \A i \in StartedAt :
         /\ i < Len(run.trace)
         /\ run.trace[i + 1].kind = "OnCaseDone"
         /\ run.trace[i + 1].code = OutcomeOf(BodyOf(run.trace[i].ent).post)

\* C7: outcomes other than ProcessCorrupted never abort the run: the bodies
\* called are the selected cases of the catalog, in order, up to the first
\* corrupting one; without a corrupting case all of them are called and Run()
\* returns.
C7_OnlyCorruptedAborts ==
  (run.state # "none" /\ ~Self.m_isCollectFailed) =>
    /\ IsPrefix(Invoked, Expected)
    /\ CorruptedAt = {} => (Invoked = Expected /\ run.state = "returned")
    /\ CorruptedAt # {} => Len(Invoked) = Cardinality({ i \in 1..Len(run.trace) :
                              run.trace[i].kind = "Case" /\ i < CHOOSE k \in CorruptedAt : TRUE })

\* A run that returned after a failed case, a skipped case and an unexpected
\* exception, with cases called after each of them in the same and in a later
\* group.
C7_Witness ==
  /\ run.state = "returned"
  /\ \E i, j, k \in 1..Len(run.trace) :
       /\ i < j /\ j < k
       /\ run.trace[i].kind = "OnCaseDone" /\ run.trace[i].code = "Failed"
       /\ run.trace[j].kind = "Case" /\ run.trace[j].grp = run.trace[i].grp
       /\ run.trace[k].kind = "Case" /\ run.trace[k].grp # run.trace[i].grp
  /\ \E i \in StartedAt : BodyOf(run.trace[i].ent).post = "std::exception"
  /\ \E i \in StartedAt : BodyOf(run.trace[i].ent).post = "CaseSkipped"

\* ------------------------------------------- the claims about traversal

\* The catalog as the Subset of the run sees it: the groups reachable from its
\* copy of the list head.
SeenChain == ChainFrom(groups, Self.m_groupListHead)
GroupStartsAt == { i \in 1..Len(run.trace) : run.trace[i].kind = "OnGroupStart" }
EnteredAt(g) == { i \in GroupStartsAt : run.trace[i].grp = g }
CalledAt == { i \in 1..Len(run.trace) : run.trace[i].kind = "Case" }

\* C11: Run() visits the groups in the order they were registered and the
\* cases of a group in ascending order: the groups of the OnGroupStart
\* callbacks follow the order of construction, each callback carries the name
\* of its group, and the ordinals of the OnCaseStart callbacks of one group
\* increase strictly.
C11_TraversalOrder ==
  /\ \A i, j \in GroupStartsAt : i < j => run.trace[i].grp < run.trace[j].grp
  /\ \A i \in GroupStartsAt : run.trace[i].name = groups[run.trace[i].grp].Name
  /\ \A i, j \in StartedAt :
       (i < j /\ run.trace[i].grp = run.trace[j].grp) =>
         run.trace[i].ordinal < run.trace[j].ordinal

\* A run that entered two groups and started the ordinals 0 and 2 of one.
C11_Witness ==
  /\ Cardinality(GroupStartsAt) = 2
  /\ \E i, j \in StartedAt : /\ run.trace[i].grp = run.trace[j].grp
                             /\ run.trace[i].ordinal = 0
                             /\ run.trace[j].ordinal = 2

RejectedAt == { i \in CalledAt : ~NameSelected(Self, run.trace[i].ent) }
C14_FilteredInvocationLeavesNoTrace ==
  \A i \in RejectedAt :
    /\ i < Len(run.trace) =>
         /\ run.trace[i + 1].kind \in {"Case", "OnGroupStart"}
         /\ run.trace[i + 1].stats = run.trace[i].stats
    /\ i = Len(run.trace) =>
         /\ run.result = run.trace[i].stats
         /\ run.state = "returned"

\* A run rejected a body that fails after StartCase and one that declares the
\* process corrupted, and started another case.
C14_Witness ==
  /\ \E i \in RejectedAt : BodyOf(run.trace[i].ent).post = "CaseFailed"
  /\ \E i \in RejectedAt : BodyOf(run.trace[i].ent).post = "ProcessCorruptedException"
  /\ StartedAt # {}
  /\ run.result.Passed > 0

StartedIn(g) == { run.trace[i].ent : i \in { k \in StartedAt : run.trace[k].grp = g } }

\* C13: by_group_and_case_name(g, c).run() issues OnGroupStart only for
\* groups named g and OnCaseStart exactly for the cases of those groups whose
\* reported name equals c, for every g and c, the empty string included: the
\* query returns a Subset, and a run of it that returns has entered no group
\* of another name and has started, in the groups named g, the cases named c
\* and no others.
C13_ByNamesStartsExactlyNamedCases ==
  subset.asked.query = "ByGroupAndCaseName" =>
    /\ subset.kind # "trapped"
    /\ run.state = "returned" =>
         /\ \A i \in GroupStartsAt \cup StartedAt :
              groups[run.trace[i].grp].Name = subset.asked.groupName
         /\ \A h \in Range(SeenChain) :
              groups[h].Name = subset.asked.groupName =>
                StartedIn(h) = { c \in Range(CaseList(h)) :
                                   BodyOf(c).name = subset.asked.caseName }

\* C16: group filtering is exact string equality for every filter string:
\* by_group(name) returns a Subset, and a run of it that returns has entered
\* a group of the catalog if and only if the name of the group equals name,
\* the empty name and names of 64 characters or more included.
C16_EnteredIffNameEquals ==
  subset.asked.query = "ByGroupName" =>
    /\ subset.kind # "trapped"
    /\ run.state = "returned" =>
         \A h \in Range(SeenChain) :
           EnteredAt(h) # {} <=> groups[h].Name = subset.asked.groupName

\* The groups of the catalog that carry the name of group g.
Namesakes(g) == { h \in Range(SeenChain) : groups[h].Name = groups[g].Name }
\* The first group of the catalog that carries the name.
FirstNamed(name) ==
  { SeenChain[i] : i \in { k \in 1..Len(SeenChain) :
                             /\ groups[SeenChain[k]].Name = name
                             /\ \A j \in 1..(k - 1) : groups[SeenChain[j]].Name # name } }

\* C17 as stated: when several registered groups carry the same name, a run
\* of by_group(name) enters only the first registered group with that name.
C17_OnlyFirstNamedGroupEntered ==
  (run.state = "returned" /\ subset.asked.query = "ByGroupName"
     /\ ~Empty(subset.asked.groupName)) =>
    \A g \in Range(SeenChain) :
      EnteredAt(g) # {} => g \in FirstNamed(subset.asked.groupName)

\* C17, amended: groups of the same name are treated alike.  A run that
\* returns enters either every group of the catalog that carries a given name
\* or none of them, each once and in registration order.
C17_NamesakesEnteredAlike ==
  run.state = "returned" =>
    \A g \in Range(SeenChain) :
      EnteredAt(g) # {} =>
        /\ \A h \in Namesakes(g) : Cardinality(EnteredAt(h)) = 1
        /\ \A h \in Namesakes(g) : \A i \in EnteredAt(g), j \in EnteredAt(h) :
             g < h => i < j

\* Two registered groups carry the name the application asked by_group for,
\* both have cases, and the run has entered both and started cases in both.
C17_Witness ==
  /\ run.state = "returned"
  /\ subset.asked.query = "ByGroupName"
  /\ ~Empty(subset.asked.groupName)
  /\ Len(SeenChain) = 2
  /\ \A g \in Range(SeenChain) :
       /\ groups[g].Name = subset.asked.groupName
       /\ EnteredAt(g) # {}
       /\ \E i \in StartedAt : run.trace[i].grp = g

\* C19 as stated: once a collection failure has been recorded, every Run()
\* that starts afterwards throws CollectFailedException without touching the
\* catalog, also on a Subset that a query created before the failure.
C19_EveryLaterRunFails ==
  (run.state # "none" /\ collectErrors # <<>>) =>
    /\ run.state = "thrown"
    /\ run.thrown.type = "CollectFailedException"
    /\ run.trace = <<>>

\* C19, amended: once a collection failure has been recorded, Run() throws
\* CollectFailedException without touching the catalog on the storage itself
\* (the reference GetAll() returns, whenever it was obtained) and on every
\* Subset obtained after the failure; a Subset copied before the first
\* failure keeps its cleared flag and never throws CollectFailedException.
C19_LaterRunsFailExceptOlderCopies ==
  run.state # "none" =>
    /\ (collectErrors # <<>> /\ (subset.kind = "ref" \/ subset.failures > 0)) =>
         /\ run.state = "thrown"
         /\ run.thrown.type = "CollectFailedException"
         /\ run.trace = <<>>
    /\ (subset.kind = "copy" /\ subset.failures = 0) =>
         run.thrown.type # "CollectFailedException"

\* The application took the GetAll() reference before any failure, a Group
\* construction then failed behind a registered group with cases, and Run() on
\* the reference has thrown.
C19_Witness ==
  /\ subset.kind = "ref"
  /\ subset.failures = 0
  /\ collectErrors # <<>>
  /\ run.state = "thrown"
  /\ \E g \in Range(Chain) : CaseList(g) # <<>>

\* C20: queries and runs leave the registry unchanged.  A step that constructs
\* no Group (a query or a Run() call, returning or throwing) leaves the storage
\* (list head and tail, the collection-failed flag, the stored error, its empty
\* filter), every group entry and every case entry as they were, and a Run()
\* call leaves the Subset it ran on, filter included, as it was.
C20_QueriesAndRunsKeepRegistry ==
  [][nGroups' = nGroups =>
       /\ storage' = storage
       /\ groups' = groups
       /\ caseEntries' = caseEntries
       /\ collectErrors' = collectErrors
       /\ run'.state # "none" => (subset' = subset /\ Self' = Self)]_vars

\* A run of a Subset filtered by group and case name over a registry of two
\* groups was aborted by a corrupting case after it had finished another.
C20_Witness ==
  /\ subset.asked.query = "ByGroupAndCaseName"
  /\ ~Empty(subset.obj.m_groupNameFilter) /\ ~Empty(subset.obj.m_caseNameFilter)
  /\ Len(Chain) = 2
  /\ run.thrown.type = "ProcessCorruptedException"
  /\ run.result.Passed + run.result.Skipped + run.result.Failed > 0

\* C28: filter completeness.  In a Run() that returns, the body of every case
\* of the catalog that the group filter and the ordinal filter select is
\* called, and the case is started unless the case-name filter rejects it;
\* GetAll() enters every group, and a run of GetAll() or ByGroupName(name)
\* starts every case of every group it enters.
C28_SelectedCasesInvokedAndStarted ==
  run.state = "returned" =>
    /\ \A g \in Range(SeenChain) :
         GroupSelected(Self, g) =>
           \A c \in Range(CaseList(g)) :
             OrdinalSelected(Self, c) =>
               /\ \E i \in CalledAt : run.trace[i].grp = g /\ run.trace[i].ent = c
               /\ NameSelected(Self, c) => c \in StartedIn(g)
    /\ subset.asked.query = "GetAll" =>
         \A g \in Range(SeenChain) : EnteredAt(g) # {}
    /\ subset.asked.query \in {"GetAll", "ByGroupName"} =>
         \A g \in Range(SeenChain) :
           EnteredAt(g) # {} => StartedIn(g) = Range(CaseList(g))

\* A run of ByGroupName("A") over the groups "A" and "B", both with cases,
\* returned after it had started three cases of "A", one of which failed.
C28_Witness ==
  /\ run.state = "returned"
  /\ subset.asked.query = "ByGroupName"
  /\ subset.asked.groupName = <<"A">>
  /\ \E g \in Range(SeenChain) : groups[g].Name = <<"B">> /\ CaseList(g) # <<>>
  /\ \E g \in Range(SeenChain) : Cardinality(StartedIn(g)) = 3
  /\ run.result.Failed = 1

\* The positions of the trace where the body of case c of group g was called.
CallsOf(g, c) == { i \in CalledAt : run.trace[i].grp = g /\ run.trace[i].ent = c }

\* C29: no retries.  Within one Run() the body of a case is called at most
\* once, whatever its outcome, and every call is the only call of its case;
\* in a run that returns, the body of every case that the group and ordinal
\* filters select is called exactly once.
C29_NoRetries ==
  /\ \A g \in Range(SeenChain) : \A c \in Range(CaseList(g)) :
       Cardinality(CallsOf(g, c)) <= 1
  /\ \A i \in CalledAt : CallsOf(run.trace[i].grp, run.trace[i].ent) = {i}
  /\ run.state = "returned" =>
       \A g \in Range(SeenChain) : \A c \in Range(CaseList(g)) :
         (GroupSelected(Self, g) /\ OrdinalSelected(Self, c)) =>
           Cardinality(CallsOf(g, c)) = 1

\* A run returned after a case that failed, a case that threw an exception
\* of an unknown type and at least two more cases.
C29_Witness ==
  /\ run.state = "returned"
  /\ \E i \in StartedAt : BodyOf(run.trace[i].ent).post = "CaseFailed"
  /\ \E i \in StartedAt : BodyOf(run.trace[i].ent).post = "unknown"
  /\ Cardinality(CalledAt) >= 4

\* C30: ordinal filtering is exact equality for every ordinal value:
\* by_group_and_case_number(g, n) returns a Subset, and a run of it that
\* returns has called exactly the bodies of the cases with ordinal n in the
\* groups named g, for every g and every n, negative values included.
C30_ByNumberCallsExactlyOrdinal ==
  subset.asked.query = "ByGroupNameAndCaseNumber" =>
    /\ subset.kind # "trapped"
    /\ run.state = "returned" =>
         \A h \in Range(SeenChain) : \A c \in Range(CaseList(h)) :
           CallsOf(h, c) # {} <=>
             (groups[h].Name = subset.asked.groupName
                /\ OrdinalOf(c) = subset.asked.caseNumber)

\* The text the observer is to receive for the text msg passed to Fail: msg,
\* or its first kMaxMessage characters when it is longer.
Truncated(msg) == IF Len(msg) <= kMaxMessage THEN msg ELSE SubSeq(msg, 1, kMaxMessage)
\* Stats.Failed behind the event at position i of the trace.
FailedBehind(i) ==
  IF i < Len(run.trace) THEN run.trace[i + 1].stats.Failed ELSE run.result.Failed

\* C22: when a body calls Fail(msg) behind StartCase, the observer receives
\* OnCaseDone(Failed, m) next, where m is msg when msg has no more than
\* kMaxMessage characters and the first kMaxMessage characters of msg
\* otherwise, and Stats.Failed increases by one.
C22_FailReportsMessage ==
  \A i \in StartedAt :
    BodyOf(run.trace[i].ent).post = "CaseFailed" =>
      /\ i < Len(run.trace)
      /\ run.trace[i + 1].kind = "OnCaseDone"
      /\ run.trace[i + 1].code = "Failed"
      /\ run.trace[i + 1].msg = Truncated(BodyOf(run.trace[i].ent).msg)
      /\ FailedBehind(i + 1) = run.trace[i].stats.Failed + 1

\* C32: the ordinal of every OnCaseStart is the ordinal of the case entry
\* whose body is being called, and its name is the name that body passed to
\* StartCase, although the one Runtime of the run serves all its cases.
C32_CaseStartCarriesOrdinalAndName ==
  \A i \in StartedAt :
    /\ run.trace[i].ordinal = run.trace[i].ent.ord
    /\ run.trace[i].ordinal = OrdinalOf(run.trace[i].ent)
    /\ run.trace[i].name = BodyOf(run.trace[i].ent).name
    /\ run.trace[i - 1].kind = "Case" /\ run.trace[i - 1].ent = run.trace[i].ent

\* One run has started cases of two groups, among them two cases of
\* different non-zero ordinals and different names.
C32_Witness ==
  /\ \E i, j \in StartedAt : /\ run.trace[i].ordinal = 1
                              /\ run.trace[j].ordinal = 2
                              /\ run.trace[i].name # run.trace[j].name
  /\ \E i, j \in StartedAt : run.trace[i].grp # run.trace[j].grp

\* C33: in the earlier definition of Subset, ByGroupName(name).Run() enters
\* exactly the groups whose name equals name and skips every group whose name
\* differs.
C33_EarlierByGroupNameEntersNamed ==
  (subset.asked.query = "EarlierByGroupName" /\ run.state = "returned") =>
    \A g \in Range(Chain) :
      (EnteredAt(g) # {}) <=> (groups[g].Name = subset.asked.groupName)

\* The names a filtering query has assigned to the filter buffers of its copy.
AssignedNames ==
  CASE subset.asked.query = "ByGroupName" -> {subset.asked.groupName}
    [] subset.asked.query = "ByGroupAndCaseName" -> {subset.asked.groupName, subset.asked.caseName}
    [] subset.asked.query = "ByGroupNameAndCaseNumber" -> {subset.asked.groupName}
    [] OTHER -> {}

\* C34: StringStorage::Assign stays inside its buffer for every length of its
\* argument: every index it writes, that of the terminating zero included, is
\* less than the size of the buffer, so a query by a name of 64 characters or
\* more ends normally and leaves the members of the copy that it does not
\* assign as they are in the storage.
C34_AssignStaysInsideBuffer ==
  AssignedNames # {} =>
    /\ \A name \in AssignedNames :
         \A index \in AssignWrites(kMaxGroupName, name) : index < kMaxGroupName
    /\ subset.kind # "trapped"
    /\ subset.asked.query # "ByGroupAndCaseName" =>
         subset.obj.m_caseNameFilter = storage.m_caseNameFilter
    /\ subset.asked.query # "ByGroupNameAndCaseNumber" =>
         subset.obj.m_caseNumberFilter = storage.m_caseNumberFilter

\* --------------------------------- the claims about runs side by side

\* What the caller of thread t has got of its Run() call.
ThreadEnded(t) == Ended(threads[t].acc)
Done(t) == threads[t].pc = "done"

\* C23: two Run() calls made by different threads while the registry is not
\* changed do not interfere: each call returns the Stats (or throws the
\* exception) and makes the callbacks, in order, that the same call makes
\* when it runs alone.
C23_ConcurrentRunsDoNotInterfere ==
  \A t \in Threads : Done(t) => ThreadEnded(t) = Run(threads[t].self)

\* Both threads have finished Run() calls that started a case, and each took
\* steps while the other was inside Run().
C23_Witness ==
  \A t \in Threads :
    /\ Done(t) /\ threads[t].met
    /\ \E i \in 1..Len(threads[t].acc.trace) : threads[t].acc.trace[i].kind = "OnCaseDone"

\* C21: two Run() calls on GetAll(), one after the other, over an unchanged
\* registry return identical Stats and make identical callbacks.
C21_RunIsRepeatable ==
  (\A t \in Threads : Done(t) /\ ~threads[t].met /\ threads[t].self = storage)
    => /\ threads[1].acc.result = threads[2].acc.result
       /\ threads[1].acc.thrown = threads[2].acc.thrown
       /\ SelectSeq(threads[1].acc.trace, IsCallback) = SelectSeq(threads[2].acc.trace, IsCallback)

\* Two calls on GetAll() have returned one after the other, with at least one
\* case counted as passed and one as failed.
C21_Witness ==
  /\ \A t \in Threads : Done(t) /\ ~threads[t].met /\ threads[t].self = storage
  /\ threads[1].acc.thrown.type = "none"
  /\ threads[1].acc.result.Passed > 0
  /\ threads[1].acc.result.Failed > 0

\* The passes of thread t through group g (OnGroupStart) and its calls of the
\* body of case entry c of group g.
GroupVisits(t, g) ==
  { i \in 1..Len(threads[t].acc.trace) :
      threads[t].acc.trace[i].kind = "OnGroupStart" /\ threads[t].acc.trace[i].grp = g }
CaseVisits(t, g, c) ==
  { i \in 1..Len(threads[t].acc.trace) :
      /\ threads[t].acc.trace[i].kind = "Case"
      /\ threads[t].acc.trace[i].grp = g
      /\ threads[t].acc.trace[i].ent = c }
VisitsAtMostOnce(t) ==
  \A g \in 1..nGroups :
    /\ Cardinality(GroupVisits(t, g)) <= 1
    /\ \A m \in Modules, n \in Ordinals : Cardinality(CaseVisits(t, g, CasePtr(m, n))) <= 1

\* C31: Run() terminates: over a registry built by Group constructions, with
\* bodies that terminate, a Run() call that has started returns or throws
\* after finitely many callbacks, and it enters no group and calls no case of
\* a group more than once.
C31_RunTerminates ==
  /\ [](VisitsAtMostOnce(1))
  /\ (InRun(1) ~> Done(1))

\* A Run() call has ended after it entered two groups of the same unit and
\* called a case in each.
C31_Witness ==
  /\ Done(1)
  /\ nGroups = 2
  /\ ctors[1].tu = ctors[2].tu
  /\ \A g \in 1..2 : /\ GroupVisits(1, g) # {}
                      /\ \E n \in Ordinals : CaseVisits(1, g, CasePtr(ctors[g].tu, n)) # {}

\* ------------------------------------- the claims about registration

\* Every unit has constructed its Group and AddGroup has returned.
AllAdded == \A m \in Modules : adders[m].pc = "done"
\* The group list is a chain from the head that holds the group of every
\* unit once and ends at the tail.
BothInRegistry ==
  /\ \A m \in Modules :
       Cardinality({ i \in 1..Len(Chain) : Chain[i] = adders[m].g }) = 1
  /\ Len(Chain) = Cardinality(Modules)
  /\ storage.m_groupListTail = Chain[Len(Chain)]
  /\ groups[storage.m_groupListTail].Next = NullGroup

\* C24 (as stated): AddGroup is guarded, so that when two units register from
\* different threads, under every interleaving both groups are in the
\* registry, each once, and the list is a finite chain from head to tail.
C24_RegistrationIsGuarded == AllAdded => BothInRegistry

\* C24 (amended): AddGroup holds no lock; when the AddGroup calls of the two
\* units do not overlap, both groups are in the registry, each once, and the
\* list is a finite chain from head to tail.
C24_RegistrationOneAtATime ==
  (AllAdded /\ \A m \in Modules : ~adders[m].met) => BothInRegistry

\* Both units have registered, one after the other.
C24_Witness ==
  /\ AllAdded
  /\ \A m \in Modules : ~adders[m].met
  /\ Len(Chain) = 2

\* ------------------------------------------- the claims about the runner

\* The console runner has run: its Subset is a copy of GetAll(), and Run() has
\* been called on it.
RunnerHasRun ==
  subset.kind = "copy" /\ subset.asked.query = "GetAll" /\ run.state # "none"

\* C25: the exit code of the console runner tells the three outcomes of Run()
\* apart: 0 when Run() returns Stats with Failed = 0, the non-zero "tests
\* failed" code when Failed # 0, and the "failed to start" code, which differs
\* from both, when Run() throws CollectFailedException and when it throws
\* ProcessCorruptedException.
C25_ExitCodeTellsOutcome ==
  RunnerHasRun =>
    /\ (run.state = "returned" /\ run.result.Failed = 0) => main(run) = 0
    /\ (run.state = "returned" /\ run.result.Failed # 0) =>
         (main(run) = RetCode_TestsFailed /\ main(run) # 0)
    /\ run.state = "thrown" =>
         (main(run) = RetCode_FailedToStart /\ main(run) \notin {0, RetCode_TestsFailed})

\* ------------------------------------------ the claims about registration

\* The ordinals 0..N of translation unit m whose body neither is a stub nor
\* calls StartCase first, and those whose body calls StartCase first.
Offending(m, N) == { n \in 0..N : bodies[m][n].pre \notin {"start", "CaseIsStub"} }
RealOrdinals(m, N) == { n \in 0..N : bodies[m][n].pre = "start" }
\* The translation units that have a case entry reachable from the registry.
ReachableUnits == UNION { { c.tu : c \in Range(CaseList(g)) } : g \in Range(Chain) }
\* The translation units for which a Group has been constructed.
ConstructedUnits == { ctors[i].tu : i \in 1..Len(ctors) }
LastError == collectErrors[Len(collectErrors)]
\* The Group constructed last: its translation unit, the N of its collector,
\* its case list.
Newest == nGroups
NewestUnit == ctors[nGroups].tu
NewestN == ctors[nGroups].N
NewestCaseList == CaseList(nGroups)
NewestCaseOrdinals == CaseOrdinals(nGroups)
NewestAfter == ctors[nGroups].after

\* The bodies the discovery of the newest Group has called, and the highest
\* ordinal among its bodies that break the StartCase-first rule.
NewestCalled == ctors[nGroups].called
NewestTopOffending ==
  CHOOSE n \in Offending(NewestUnit, NewestN) :
    \A k \in Offending(NewestUnit, NewestN) : k <= n

\* C36: discovery stops at the first offending body on its walk from the
\* highest ordinal down: the failure recorded carries the highest offending
\* ordinal and no body of a lower ordinal is called; the failed construction
\* neither removes nor alters a group registered before, and a later
\* construction whose discovery succeeds is appended to the registry.
C36_DiscoveryStopsAtFirstOffender ==
  [][ /\ (nGroups' = nGroups + 1 /\ Offending(NewestUnit', NewestN') # {}) =>
           /\ LastError'.Ordinal = NewestTopOffending'
           /\ storage'.m_collectFailedError.Ordinal = NewestTopOffending'
           /\ NewestCalled' = NewestTopOffending'..NewestN'
           /\ Chain' = Chain
           /\ \A g \in Range(Chain) : /\ groups'[g] = groups[g]
                                      /\ CaseList(g)' = CaseList(g)
      /\ (nGroups' = nGroups + 1 /\ Offending(NewestUnit', NewestN') = {}
            /\ collectErrors # <<>>) =>
           /\ Chain' = Append(Chain, Newest')
           /\ collectErrors' = collectErrors
    ]_vars

\* The discovery of a unit with several offending bodies, the highest of
\* them below the maximum ordinal of the collector, has failed, and the Group
\* of another unit was appended afterwards.
C36_Witness ==
  /\ Len(ctors) = 2 /\ Len(collectErrors) = 1 /\ Chain = <<2>>
  /\ ctors[1].tu # ctors[2].tu
  /\ Cardinality(Offending(ctors[1].tu, ctors[1].N)) >= 2
  /\ collectErrors[1].Ordinal < ctors[1].N
  /\ collectErrors[1].Ordinal > 0
  /\ CaseList(2) # <<>>

\* C35: once a group is registered its case sequence never changes: the
\* construction of a further Group, be it a second Group of the same unit
\* with a collector of another maximum ordinal or one whose discovery fails,
\* leaves the case list of every group registered before as it was.
C35_CaseSequencesNeverChange ==
  [][ nGroups' = nGroups + 1 =>
      \A g \in Range(Chain) : /\ CaseList(g)' = CaseList(g)
                              /\ CaseOrdinals(g)' = CaseOrdinals(g)
    ]_vars

\* C8: the construction of a Group is all or nothing.  Either the group, with
\* its name and every discovered case, is appended to the registry and no
\* failure is recorded; or (some ordinal fails discovery) the sequence of
\* registered groups is unchanged, no case of a translation unit that
\* constructs its first Group is reachable from the registry, and a
\* CollectFailedException with the group's name and file is recorded.
C8_AllOrNothing ==
  [][ nGroups' = nGroups + 1 =>
      IF Offending(NewestUnit', NewestN') = {}
        THEN /\ Chain' = Append(Chain, Newest')
             /\ groups'[Newest'].Name \in GroupNamesOf(NewestUnit')
             /\ groups'[Newest'].FileName = FileNames[NewestUnit']
             /\ Range(NewestCaseList') = { CasePtr(NewestUnit', n) :
                                             n \in RealOrdinals(NewestUnit', NewestN') }
             /\ collectErrors' = collectErrors
             /\ storage'.m_isCollectFailed = storage.m_isCollectFailed
        ELSE /\ Chain' = Chain
             /\ \A h \in Range(Chain) : /\ groups'[h].Name = groups[h].Name
                                        /\ groups'[h].FileName = groups[h].FileName
             /\ NewestUnit' \notin ConstructedUnits => NewestUnit' \notin ReachableUnits'
             /\ Len(collectErrors') = Len(collectErrors) + 1
             /\ LastError'.type = "CollectFailedException"
             /\ LastError'.GroupName = groups'[Newest'].Name
             /\ LastError'.GroupName \in GroupNamesOf(NewestUnit')
             /\ LastError'.FileName = FileNames[NewestUnit']
             /\ storage'.m_isCollectFailed
             /\ storage'.m_collectFailedError = LastError'
    ]_vars

\* A registered group with cases, then the failed construction of the first
\* Group of another translation unit, whose discovery had linked a real case
\* before it met the offending body.
C8_Witness ==
  /\ Len(ctors) = 2
  /\ Len(Chain) = 1 /\ CaseList(Chain[1]) # <<>>
  /\ Len(collectErrors) = 1
  /\ ctors[2].tu # ctors[1].tu
  /\ \E n \in RealOrdinals(ctors[2].tu, ctors[2].N) : n > LastError.Ordinal

\* C18: the collection-failed flag is sticky and the last write wins.  In
\* every state the flag is set exactly when a failure has been recorded and
\* the stored error is the failure recorded last; no construction of a Group,
\* failed or not, clears the flag or takes a recorded failure back.
C18_StickyFlagLastWriteWins ==
  [][/\ storage.m_isCollectFailed <=> collectErrors # <<>>
     /\ storage'.m_isCollectFailed <=> collectErrors' # <<>>
     /\ storage.m_isCollectFailed => storage'.m_isCollectFailed
     /\ IsPrefix(collectErrors, collectErrors')
     /\ collectErrors' # <<>> =>
          storage'.m_collectFailedError = collectErrors'[Len(collectErrors')]]_vars

\* Two constructions have failed with different errors, and the storage holds
\* the second.
C18_Witness ==
  /\ Len(collectErrors) = 2
  /\ collectErrors[1] # collectErrors[2]
  /\ storage.m_isCollectFailed
  /\ storage.m_collectFailedError = collectErrors[2]

\* st with the list head and tail of the storage to.
WithListOf(st, to) ==
  [st EXCEPT !.m_groupListHead = to.m_groupListHead, !.m_groupListTail = to.m_groupListTail]

\* C27: during discovery no code of a case body that follows its StartCase
\* call is executed, in no construction of a Group; and the construction of a
\* Group of a unit whose bodies all call StartCase first (or are stubs) has
\* no effect other than building the case list and appending the group: no
\* failure is recorded, the storage changes in its list head and tail only,
\* the groups registered before change in their Next link only, and the case
\* entries of the other units, the bodies and the Subset of the application
\* are as before.
C27_DiscoveryRunsNothingBehindStartCase ==
  [][ nGroups' = nGroups + 1 =>
      /\ NewestAfter' = {}
      /\ Offending(NewestUnit', NewestN') = {} =>
           /\ collectErrors' = collectErrors
           /\ storage' = WithListOf(storage, storage')
           /\ \A h \in 1..nGroups : groups'[h] = [groups[h] EXCEPT !.Next = groups'[h].Next]
           /\ \A m \in Modules \ {NewestUnit'} : caseEntries'[m] = caseEntries[m]
           /\ bodies' = bodies
           /\ subset' = subset
    ]_vars

\* A unit was registered that holds a case which declares the process
\* corrupted behind StartCase, and no failure is recorded.
C27_Witness ==
  /\ collectErrors = <<>>
  /\ \E g \in Range(Chain) : \E c \in Range(CaseList(g)) :
       BodyOf(c).post = "ProcessCorruptedException"

\* C9: discovery fails whenever a body that is not a stub returns without
\* calling StartCase, or throws anything else (skip, fail, ProcessCorrupted)
\* before calling it: a CollectFailedException is recorded that carries the
\* ordinal of such a body and a message that tells which of the two happened.
C9_DiscoveryFailureRecorded ==
  [][ (nGroups' = nGroups + 1 /\ Offending(NewestUnit', NewestN') # {}) =>
      /\ Len(collectErrors') = Len(collectErrors) + 1
      /\ storage'.m_isCollectFailed
      /\ storage'.m_collectFailedError = LastError'
      /\ LastError'.type = "CollectFailedException"
      /\ LastError'.Ordinal \in Offending(NewestUnit', NewestN')
      /\ ~Empty(LastError'.Message)
      /\ LastError'.Message =
           (IF bodies[NewestUnit'][LastError'.Ordinal].pre = "return"
              THEN <<"Case body does not start with StartTest()">>
              ELSE <<"Case throws something before StartCase()">>)
      /\ Newest' \notin Range(Chain')
    ]_vars

\* A failure was recorded for a body at a positive ordinal that throws before
\* StartCase, in a unit whose ordinal 0 is a real case.
C9_Witness ==
  /\ collectErrors # <<>>
  /\ LastError.Ordinal > 0
  /\ LastError.Message = <<"Case throws something before StartCase()">>
  /\ \E i \in 1..Len(ctors) :
       /\ FileNames[ctors[i].tu] = LastError.FileName
       /\ bodies[ctors[i].tu][LastError.Ordinal].pre = "CaseSkipped"
       /\ bodies[ctors[i].tu][0].pre = "start"

\* C10: when every body of the ordinals 0..N is a stub or calls StartCase
\* first, the construction registers one group whose case list holds exactly
\* the real ordinals, in ascending order; real, stub, real gives the ordinals
\* 0 and 2.
C10_RealOrdinalsAscending ==
  [][ (nGroups' = nGroups + 1 /\ Offending(NewestUnit', NewestN') = {}) =>
      /\ Chain' = Append(Chain, Newest')
      /\ NewestCaseOrdinals' = Ascending(RealOrdinals(NewestUnit', NewestN'))
      /\ \A i \in 1..Len(NewestCaseList') :
           /\ NewestCaseList'[i] = CasePtr(NewestUnit', NewestCaseOrdinals'[i])
           /\ caseEntries'[NewestUnit'][NewestCaseOrdinals'[i]].CaseProc = NewestCaseList'[i]
    ]_vars

\* A registered group of a unit that declares real, stub, real: its case list
\* is the ordinals 0, 2.
C10_Witness ==
  \E g \in Range(Chain) : \E i \in 1..Len(ctors) :
    /\ i = g
    /\ ctors[i].N = 2
    /\ bodies[ctors[i].tu][0].pre = "start"
    /\ bodies[ctors[i].tu][1].pre = "CaseIsStub"
    /\ bodies[ctors[i].tu][2].pre = "start"
    /\ CaseOrdinals(g) = <<0, 2>>

====
